---- MODULE Spec2Model ----
(***************************************************************************)
(* prisma-strong-migrations: the SQL statement splitter / parser           *)
(* (src/core/sql-parser.ts) and the rule engine (src/core/rule-engine.ts). *)
(* Text is a sequence of one-character strings.                            *)
(***************************************************************************)
EXTENDS Integers, Sequences, FiniteSets, TLC

\* ------------------------------------------------------------------------
\* Characters
\* ------------------------------------------------------------------------
NL == "\n"
SP == " "
SEMI == ";"
SQ == "'"
DQ == "\""
BS == "\\"
DASH == "-"
SLASH == "/"
STAR == "*"
Undefined == "undefined"

\* Bound on the length of the exhaustively enumerated migration texts.
MaxLen == 3

ScanAlphabet == {SEMI, SQ, DQ, BS, DASH, SLASH, STAR, NL, SP, "x"}

ShortTexts == UNION {[1..m -> ScanAlphabet] : m \in 0..MaxLen}

\* Keywords, as character sequences.
kwCREATE == <<"C", "R", "E", "A", "T", "E">>
kwTABLE == <<"T", "A", "B", "L", "E">>
kwINDEX == <<"I", "N", "D", "E", "X">>
kwUNIQUE == <<"U", "N", "I", "Q", "U", "E">>
kwDROP == <<"D", "R", "O", "P">>
kwALTER == <<"A", "L", "T", "E", "R">>
kwINSERT == <<"I", "N", "S", "E", "R", "T">>
kwUPDATE == <<"U", "P", "D", "A", "T", "E">>
kwDELETE == <<"D", "E", "L", "E", "T", "E">>
kwSELECT == <<"S", "E", "L", "E", "C", "T">>
kwBEGIN == <<"B", "E", "G", "I", "N">>

\* ------------------------------------------------------------------------
\* String helpers (JavaScript String.prototype semantics)
\* ------------------------------------------------------------------------
IsWhitespace(c) == c \in {SP, NL}

SetMin(S) == CHOOSE x \in S : \A y \in S : x <= y
SetMax(S) == CHOOSE x \in S : \A y \in S : x >= y

\* s.trim()
Trim(s) ==
  LET keep == {j \in 1..Len(s) : ~IsWhitespace(s[j])}
  IN IF keep = {} THEN <<>> ELSE SubSeq(s, SetMin(keep), SetMax(keep))

\* s.startsWith(p)
StartsWith(s, p) == Len(s) >= Len(p) /\ SubSeq(s, 1, Len(p)) = p

\* (s.match(/\n/g) || []).length
CountNewlines(s) == Cardinality({j \in 1..Len(s) : s[j] = NL})

\* s.split('\n')
RECURSIVE SplitLines(_)
SplitLines(s) ==
  LET nls == {j \in 1..Len(s) : s[j] = NL}
  IN IF nls = {} THEN <<s>>
     ELSE LET p == SetMin(nls)
          IN <<SubSeq(s, 1, p - 1)>> \o SplitLines(SubSeq(s, p + 1, Len(s)))

\* lines.join('\n')
RECURSIVE JoinLines(_)
JoinLines(lines) ==
  IF lines = <<>> THEN <<>>
  ELSE IF Len(lines) = 1 THEN lines[1]
  ELSE lines[1] \o <<NL>> \o JoinLines(Tail(lines))

LowerLetters ==
  <<"a", "b", "c", "d", "e", "f", "g", "h", "i", "j", "k", "l", "m",
    "n", "o", "p", "q", "r", "s", "t", "u", "v", "w", "x", "y", "z">>

UpperLetters ==
  <<"A", "B", "C", "D", "E", "F", "G", "H", "I", "J", "K", "L", "M",
    "N", "O", "P", "Q", "R", "S", "T", "U", "V", "W", "X", "Y", "Z">>

\* c.toUpperCase() on ASCII
UpperChar(c) ==
  IF \E n \in 1..26 : LowerLetters[n] = c
  THEN UpperLetters[CHOOSE n \in 1..26 : LowerLetters[n] = c]
  ELSE c

ToUpperCase(s) == [j \in 1..Len(s) |-> UpperChar(s[j])]

\* ------------------------------------------------------------------------
\* SQLParser.getStatementType
\* ------------------------------------------------------------------------
\* Mutant of getStatementType: the bare CREATE, DROP and ALTER prefixes are tested first
getStatementType_BareFirst(statement) ==
  LET trimmed == ToUpperCase(Trim(statement))
  IN IF StartsWith(trimmed, kwCREATE) THEN "CREATE"
     ELSE IF StartsWith(trimmed, kwDROP) THEN "DROP"
     ELSE IF StartsWith(trimmed, kwALTER) THEN "ALTER"
     ELSE IF StartsWith(trimmed, kwCREATE \o <<SP>> \o kwTABLE) THEN "CREATE_TABLE"
     ELSE IF StartsWith(trimmed, kwALTER \o <<SP>> \o kwTABLE) THEN "ALTER_TABLE"
     ELSE IF StartsWith(trimmed, kwDROP \o <<SP>> \o kwTABLE) THEN "DROP_TABLE"
     ELSE IF StartsWith(trimmed, kwCREATE \o <<SP>> \o kwINDEX) THEN "CREATE_INDEX"
     ELSE IF StartsWith(trimmed, kwDROP \o <<SP>> \o kwINDEX) THEN "DROP_INDEX"
     ELSE IF StartsWith(trimmed, kwINSERT) THEN "INSERT"
     ELSE IF StartsWith(trimmed, kwUPDATE) THEN "UPDATE"
     ELSE IF StartsWith(trimmed, kwDELETE) THEN "DELETE"
     ELSE IF StartsWith(trimmed, kwSELECT) THEN "SELECT"
     ELSE "UNKNOWN"

getStatementType(statement) ==
  LET trimmed == ToUpperCase(Trim(statement))
  IN IF StartsWith(trimmed, kwCREATE \o <<SP>> \o kwTABLE) THEN "CREATE_TABLE"
     ELSE IF StartsWith(trimmed, kwALTER \o <<SP>> \o kwTABLE) THEN "ALTER_TABLE"
     ELSE IF StartsWith(trimmed, kwDROP \o <<SP>> \o kwTABLE) THEN "DROP_TABLE"
     ELSE IF StartsWith(trimmed, kwCREATE \o <<SP>> \o kwINDEX) THEN "CREATE_INDEX"
     ELSE IF StartsWith(trimmed, kwDROP \o <<SP>> \o kwINDEX) THEN "DROP_INDEX"
     ELSE IF StartsWith(trimmed, kwINSERT) THEN "INSERT"
     ELSE IF StartsWith(trimmed, kwUPDATE) THEN "UPDATE"
     ELSE IF StartsWith(trimmed, kwDELETE) THEN "DELETE"
     ELSE IF StartsWith(trimmed, kwSELECT) THEN "SELECT"
     ELSE IF StartsWith(trimmed, kwCREATE) THEN "CREATE"
     ELSE IF StartsWith(trimmed, kwDROP) THEN "DROP"
     ELSE IF StartsWith(trimmed, kwALTER) THEN "ALTER"
     ELSE "UNKNOWN"

\* ------------------------------------------------------------------------
\* Example migration texts (longer than MaxLen)
\* ------------------------------------------------------------------------
txtT == <<SP, "t">>

\* "-- x\nCREATE TABLE t;"
ExHeaderComment == <<DASH, DASH, SP, "x", NL>> \o kwCREATE \o <<SP>> \o kwTABLE \o txtT \o <<SEMI>>
\* "CREATE UNIQUE INDEX t;"
ExUniqueIndex == kwCREATE \o <<SP>> \o kwUNIQUE \o <<SP>> \o kwINDEX \o txtT \o <<SEMI>>
\* "CREATE INDEX t;"
ExCreateIndex == kwCREATE \o <<SP>> \o kwINDEX \o txtT \o <<SEMI>>
\* "INSERT (';');"
ExQuotedSemi == kwINSERT \o <<SP, "(", SQ, SEMI, SQ, ")", SEMI>>
\* "DROP TABLE t;\nDROP INDEX t;\n\nx"
ExThreeLines == kwDROP \o <<SP>> \o kwTABLE \o txtT \o <<SEMI, NL>> \o kwDROP \o <<SP>> \o kwINDEX
                \o txtT \o <<SEMI, NL, NL, "x">>
\* "x\n-- x\nx;"
ExInteriorComment == <<"x", NL, DASH, DASH, SP, "x", NL, "x", SEMI>>
\* "('x\n--x');"
ExMultilineString == <<"(", SQ, "x", NL, DASH, DASH, "x", SQ, ")", SEMI>>
\* "/* x */;x;;-- x"
ExCommentSpans == <<SLASH, STAR, SP, "x", SP, STAR, SLASH, SEMI, "x", SEMI, SEMI, DASH, DASH, SP, "x">>
\* "/*/;*/x;"
ExSlashStarSlash == <<SLASH, STAR, SLASH, SEMI, STAR, SLASH, "x", SEMI>>
\* " \n  -- x\n\n x;x"
ExBlankThenCode == <<SP, NL, SP, SP, DASH, DASH, SP, "x", NL, NL, SP, "x", SEMI, "x">>

\* "/* x */ DROP TABLE t;"
ExCommentThenCode ==
  <<SLASH, STAR, SP, "x", SP, STAR, SLASH, SP>> \o kwDROP \o <<SP>> \o kwTABLE \o txtT \o <<SEMI>>
\* "-- x\n/* x */;\n('\n');"
ExLineAccounting ==
  <<DASH, DASH, SP, "x", NL, SLASH, STAR, SP, "x", SP, STAR, SLASH, SEMI, NL,
    "(", SQ, NL, SQ, ")", SEMI>>

\* "x;/* ; */x; \n"
ExTrailingBlank == <<"x", SEMI, SLASH, STAR, SP, SEMI, SP, STAR, SLASH, "x", SEMI, SP, NL>>

ExampleTexts ==
  {ExHeaderComment, ExUniqueIndex, ExCreateIndex, ExQuotedSemi, ExThreeLines,
   ExInteriorComment, ExMultilineString, ExCommentSpans, ExSlashStarSlash,
   ExBlankThenCode, ExCommentThenCode, ExLineAccounting, ExTrailingBlank}

\* ------------------------------------------------------------------------
\* State
\* ------------------------------------------------------------------------
VARIABLES
  content,        \* parseStatements(content)
  pc,             \* "scan" (splitSQLStatements loop), "parse" (parseStatements loop)
  i,              \* splitSQLStatements: loop index (1-based here)
  current,        \* splitSQLStatements: current
  inString,       \* splitSQLStatements: inString
  stringChar,     \* splitSQLStatements: stringChar
  inComment,      \* splitSQLStatements: inComment
  commentType,    \* splitSQLStatements: commentType
  rawStatements,  \* splitSQLStatements: statements / parseStatements: rawStatements
  lineNumber,     \* parseStatements: lineNumber
  k,              \* parseStatements: index of the raw statement of the for-of loop
  statements,     \* parseStatements: statements
  rules,          \* RuleEngine.rules: array of references to rule objects
  enabled,        \* rule.enabled of every rule object
  scanPc,         \* "idle", "awaiting" (suspended at an await), "done", "rejected"
  scanKind,       \* which linting call is in flight
  scanInput,      \* its migrations / changed files
  scanIdx,        \* index of the migration / file being processed
  pending,        \* analyzeMigrations: violations of the awaited analyzeMigration
  allViolations,  \* allViolations
  result,         \* the LintResult the call resolved with
  calls,          \* rule.check invocations of the latest analyzeMigration: <<statement, rule position>>
  warnings,       \* number of console.warn diagnostics emitted
  lastOp,         \* the latest registry operation and whether its id was registered
  clsStatement,   \* getStatementType(statement): the argument
  clsType,        \* getStatementType(statement): the value returned
  config,         \* ConfigManager.getConfig(): failOnError, failOnWarning
  shouldExitArg,  \* shouldExit(result): the argument
  shouldExitRet,  \* shouldExit(result): the value returned
  userRules,      \* the "rules" entry of the user's configuration file
  configRules,    \* ConfigManager: config.rules after mergeWithDefaults
  linterRules,    \* the rules the linter registered with its engine
  linterPc,       \* position in the construction and use of the linter
  linterResult,   \* the LintResult of the linter's lintFile call
  otherCall,      \* a second analyzeMigrations call in flight on the same engine
  callerArray,    \* the array a caller created and passed to RuleEngine constructors
  engineRules,    \* this.rules of each of two engines: the caller's array or an own one
  returned,       \* what the latest accessor call returned to the caller
  shareOp         \* the latest call of the caller: whether it was a management operation

parserVars == <<content, pc, i, current, inString, stringChar, inComment, commentType,
                rawStatements, lineNumber, k, statements>>

engineVars == <<rules, enabled, scanPc, scanKind, scanInput, scanIdx, pending, allViolations,
                result, calls, warnings, lastOp>>

\* Arguments and results of the pure functions getStatementType and shouldExit
pureVars == <<clsStatement, clsType, config, shouldExitArg, shouldExitRet>>

\* The linter built from a user configuration
linterVars == <<userRules, configRules, linterRules, linterPc, linterResult>>

\* Two engines that may share rule objects and the array given to their constructors
shareVars == <<callerArray, engineRules, returned, shareOp>>

extVars == <<linterVars, otherCall, shareVars>>

vars == <<parserVars, engineVars, pureVars, extVars>>

\* ------------------------------------------------------------------------
\* SQLParser.splitSQLStatements, one action per branch of the loop body
\* ------------------------------------------------------------------------
Scanning == pc = "scan" /\ i <= Len(content)

char == content[i]
nextChar == IF i + 1 <= Len(content) THEN content[i + 1] ELSE Undefined
prevChar == IF i - 1 >= 1 THEN content[i - 1] ELSE Undefined

AtLineCommentOpen == ~inString /\ ~inComment /\ char = DASH /\ nextChar = DASH
AtBlockCommentOpen == ~inString /\ ~inComment /\ char = SLASH /\ nextChar = STAR
ClosesLineComment == commentType = "line" /\ char = NL
ClosesBlockComment == commentType = "block" /\ char = STAR /\ nextChar = SLASH
\* Mutant of ClosesString: a quote preceded by a backslash closes the literal too
ClosesString_IgnoresEscape == char = stringChar

ClosesString == char = stringChar /\ prevChar # BS
AtTerminator == char = SEMI

EnterLineComment ==
  /\ Scanning
  /\ AtLineCommentOpen
  /\ inComment' = TRUE
  /\ commentType' = "line"
  /\ current' = Append(current, char)
  /\ i' = i + 1
  /\ UNCHANGED <<content, pc, inString, stringChar, rawStatements, lineNumber, k, statements>>
  /\ UNCHANGED <<engineVars, pureVars, extVars>>

EnterBlockComment ==
  /\ Scanning
  /\ ~AtLineCommentOpen
  /\ AtBlockCommentOpen
  /\ inComment' = TRUE
  /\ commentType' = "block"
  /\ current' = Append(current, char)
  /\ i' = i + 1
  /\ UNCHANGED <<content, pc, inString, stringChar, rawStatements, lineNumber, k, statements>>
  /\ UNCHANGED <<engineVars, pureVars, extVars>>

\* Mutant of CommentChar: the "/" of the closing "*/" is skipped without being appended
CommentChar_DropsCloserSlash ==
  /\ Scanning
  /\ inComment
  /\ IF ClosesLineComment
     THEN /\ current' = Append(current, char)
          /\ inComment' = FALSE
          /\ i' = i + 1
     ELSE IF ClosesBlockComment
     THEN /\ current' = Append(current, char)
          /\ inComment' = FALSE
          /\ i' = i + 2
     ELSE /\ current' = Append(current, char)
          /\ inComment' = inComment
          /\ i' = i + 1
  /\ UNCHANGED <<content, pc, inString, stringChar, commentType, rawStatements, lineNumber,
                 k, statements>>
  /\ UNCHANGED <<engineVars, pureVars, extVars>>

CommentChar ==
  /\ Scanning
  /\ inComment
  /\ IF ClosesLineComment
     THEN /\ current' = Append(current, char)
          /\ inComment' = FALSE
          /\ i' = i + 1
     ELSE IF ClosesBlockComment
     THEN /\ current' = current \o <<char, nextChar>>
          /\ inComment' = FALSE
          /\ i' = i + 2
     ELSE /\ current' = Append(current, char)
          /\ inComment' = inComment
          /\ i' = i + 1
  /\ UNCHANGED <<content, pc, inString, stringChar, commentType, rawStatements, lineNumber,
                 k, statements>>
  /\ UNCHANGED <<engineVars, pureVars, extVars>>

OpenString ==
  /\ Scanning
  /\ ~AtLineCommentOpen /\ ~AtBlockCommentOpen
  /\ ~inComment
  /\ ~inString /\ char \in {SQ, DQ}
  /\ inString' = TRUE
  /\ stringChar' = char
  /\ current' = Append(current, char)
  /\ i' = i + 1
  /\ UNCHANGED <<content, pc, inComment, commentType, rawStatements, lineNumber, k, statements>>
  /\ UNCHANGED <<engineVars, pureVars, extVars>>

StringChar ==
  /\ Scanning
  /\ ~inComment
  /\ inString
  /\ current' = Append(current, char)
  /\ inString' = ~ClosesString
  /\ i' = i + 1
  /\ UNCHANGED <<content, pc, stringChar, inComment, commentType, rawStatements, lineNumber,
                 k, statements>>
  /\ UNCHANGED <<engineVars, pureVars, extVars>>

Terminate ==
  /\ Scanning
  /\ ~AtLineCommentOpen /\ ~AtBlockCommentOpen
  /\ ~inComment
  /\ ~inString /\ char \notin {SQ, DQ}
  /\ AtTerminator
  /\ rawStatements' = Append(rawStatements, Append(current, char))
  /\ current' = <<>>
  /\ i' = i + 1
  /\ UNCHANGED <<content, pc, inString, stringChar, inComment, commentType, lineNumber, k,
                 statements>>
  /\ UNCHANGED <<engineVars, pureVars, extVars>>

AppendChar ==
  /\ Scanning
  /\ ~AtLineCommentOpen /\ ~AtBlockCommentOpen
  /\ ~inComment
  /\ ~inString /\ char \notin {SQ, DQ}
  /\ ~AtTerminator
  /\ current' = Append(current, char)
  /\ i' = i + 1
  /\ UNCHANGED <<content, pc, inString, stringChar, inComment, commentType, rawStatements,
                 lineNumber, k, statements>>
  /\ UNCHANGED <<engineVars, pureVars, extVars>>

\* End of the loop: "Add remaining content if any", return to parseStatements.
\* Mutant of FlushRemaining: a buffer that ends inside a string or comment is discarded
FlushRemaining_DropsUnterminated ==
  /\ pc = "scan"
  /\ i > Len(content)
  /\ rawStatements' = IF Trim(current) # <<>> /\ ~inString /\ ~inComment
                      THEN Append(rawStatements, current)
                      ELSE rawStatements
  /\ pc' = "parse"
  /\ lineNumber' = 1
  /\ k' = 1
  /\ UNCHANGED <<content, i, current, inString, stringChar, inComment, commentType, statements>>
  /\ UNCHANGED <<engineVars, pureVars, extVars>>

\* "Add remaining content if any", then the for-of loop of parseStatements starts
FlushRemaining ==
  /\ pc = "scan"
  /\ i > Len(content)
  /\ rawStatements' = IF Trim(current) # <<>> THEN Append(rawStatements, current)
                      ELSE rawStatements
  /\ pc' = "parse"
  /\ lineNumber' = 1
  /\ k' = 1
  /\ UNCHANGED <<content, i, current, inString, stringChar, inComment, commentType, statements>>
  /\ UNCHANGED <<engineVars, pureVars, extVars>>

\* ------------------------------------------------------------------------
\* SQLParser.parseStatements, one action per iteration of the for-of loop
\* ------------------------------------------------------------------------
Parsing == pc = "parse" /\ k <= Len(rawStatements)

rawStatement == rawStatements[k]
trimmed == Trim(rawStatement)
lines == SplitLines(trimmed)

\* Mutant of IsSqlLine: lines beginning with /* are not recognised as comments
IsSqlLine_DashOnly(line) ==
  LET lineTrimmed == Trim(line)
  IN /\ lineTrimmed # <<>>
     /\ ~StartsWith(lineTrimmed, <<DASH, DASH>>)

IsSqlLine(line) ==
  LET lineTrimmed == Trim(line)
  IN /\ lineTrimmed # <<>>
     /\ ~StartsWith(lineTrimmed, <<DASH, DASH>>)
     /\ ~StartsWith(lineTrimmed, <<SLASH, STAR>>)

sqlLines == SelectSeq(lines, IsSqlLine)
sqlContent == Trim(JoinLines(sqlLines))

\* Mutant of MakeStatement: endLine counts the lines of the span, not its newlines
MakeStatement_EndCountsLines(ast) ==
  [type |-> getStatementType(sqlContent),
   content |-> sqlContent,
   startLine |-> lineNumber,
   endLine |-> lineNumber + Len(SplitLines(rawStatement)),
   ast |-> ast]

MakeStatement(ast) ==
  [type |-> getStatementType(sqlContent),
   content |-> sqlContent,
   startLine |-> lineNumber,
   endLine |-> lineNumber + CountNewlines(rawStatement),
   ast |-> ast]

\* Mutant of SkipSpan: a dropped span does not advance the line counter
SkipSpan_LineNotAdvanced ==
  /\ Parsing
  /\ \/ trimmed = <<>>
     \/ Len(sqlLines) = 0
     \/ sqlContent = <<>>
  /\ k' = k + 1
  /\ UNCHANGED <<content, pc, i, current, inString, stringChar, inComment, commentType,
                 rawStatements, lineNumber, statements>>
  /\ UNCHANGED <<engineVars, pureVars, extVars>>

\* "Skip empty statements or pure comment blocks"
SkipSpan ==
  /\ Parsing
  /\ \/ trimmed = <<>>
     \/ Len(sqlLines) = 0
     \/ sqlContent = <<>>
  /\ lineNumber' = lineNumber + CountNewlines(rawStatement)
  /\ k' = k + 1
  /\ UNCHANGED <<content, pc, i, current, inString, stringChar, inComment, commentType,
                 rawStatements, statements>>
  /\ UNCHANGED <<engineVars, pureVars, extVars>>

KeepSpan == trimmed # <<>> /\ Len(sqlLines) # 0 /\ sqlContent # <<>>

\* try branch: the external parse() returns an AST
EmitParsed ==
  /\ Parsing
  /\ KeepSpan
  /\ statements' = Append(statements, MakeStatement("ast"))
  /\ lineNumber' = lineNumber + CountNewlines(rawStatement)
  /\ k' = k + 1
  /\ UNCHANGED <<content, pc, i, current, inString, stringChar, inComment, commentType,
                 rawStatements>>
  /\ UNCHANGED <<engineVars, pureVars, extVars>>

\* Mutant of EmitUnparsed: the statement the external parser rejects is not recorded
EmitUnparsed_Skips ==
  /\ Parsing
  /\ KeepSpan
  /\ lineNumber' = lineNumber + CountNewlines(rawStatement)
  /\ k' = k + 1
  /\ UNCHANGED <<content, pc, i, current, inString, stringChar, inComment, commentType,
                 rawStatements, statements>>
  /\ UNCHANGED <<engineVars, pureVars, extVars>>

\* catch branch: the external parse() throws
EmitUnparsed ==
  /\ Parsing
  /\ KeepSpan
  /\ statements' = Append(statements, MakeStatement("null"))
  /\ lineNumber' = lineNumber + CountNewlines(rawStatement)
  /\ k' = k + 1
  /\ UNCHANGED <<content, pc, i, current, inString, stringChar, inComment, commentType,
                 rawStatements>>
  /\ UNCHANGED <<engineVars, pureVars, extVars>>


\* ------------------------------------------------------------------------
\* Statements given to getStatementType on their own
\* ------------------------------------------------------------------------
LowerChar(c) ==
  IF \E n \in 1..26 : UpperLetters[n] = c
  THEN LowerLetters[CHOOSE n \in 1..26 : UpperLetters[n] = c]
  ELSE c

ToLowerCase(s) == [j \in 1..Len(s) |-> LowerChar(s[j])]

\* First letter upper case, the rest lower case.
Capitalised(s) == [j \in 1..Len(s) |-> IF j = 1 THEN s[j] ELSE LowerChar(s[j])]

FirstWords == {kwCREATE, kwDROP, kwALTER, kwINSERT, kwUPDATE, kwDELETE, kwSELECT, kwBEGIN}

SecondWords ==
  {<<>>, <<SP>> \o kwTABLE, <<SP>> \o kwINDEX, <<SP>> \o kwUNIQUE \o <<SP>> \o kwINDEX,
   <<SP, SP>> \o kwTABLE, kwTABLE}

UpperStatements == {w1 \o w2 \o rest : w1 \in FirstWords, w2 \in SecondWords, rest \in {<<>>, txtT}}

\* The letter-case and surrounding-whitespace variants of a statement.
Variants(s) ==
  {lead \o cased \o trail : lead \in {<<>>, <<SP>>, <<NL, SP>>},
                            cased \in {ToUpperCase(s), ToLowerCase(s), Capitalised(s)},
                            trail \in {<<>>, <<SP, NL>>}}

ClassifierInputs == UNION {Variants(s) : s \in UpperStatements}

\* const type = this.getStatementType(statement)
Classify ==
  /\ clsType = ""
  /\ clsType' = getStatementType(clsStatement)
  /\ UNCHANGED <<clsStatement, config, shouldExitArg, shouldExitRet>>
  /\ UNCHANGED <<parserVars, engineVars, extVars>>

\* return statements;
ParseDone == pc = "parse" /\ k > Len(rawStatements)

\* ------------------------------------------------------------------------
\* Rules, statements and migrations given to the rule engine
\* ------------------------------------------------------------------------
\* Bound on the number of registered rules.
MaxRules == 2

ERROR == "error"
WARNING == "warning"
INFO == "info"

\* Rule objects: 1 is the built-in no-drop-table rule, 2..4 are custom rules
\* (3 reuses the id of rule 1).
RuleObjs == {1, 2, 3, 4}

\* getBuiltInRules(): Object.values(BUILT_IN_RULES), here the rule objects 1
\* (no-drop-table) and 5 (no-data-manipulation)
getBuiltInRules == <<1, 5>>

RuleDef(o) ==
  CASE o = 1 -> [id |-> "no-drop-table", severity |-> ERROR, enabled |-> TRUE]
    [] o = 2 -> [id |-> "custom-warn", severity |-> WARNING, enabled |-> TRUE]
    [] o = 3 -> [id |-> "no-drop-table", severity |-> INFO, enabled |-> TRUE]
    [] o = 4 -> [id |-> "custom-flaky", severity |-> ERROR, enabled |-> TRUE]
    [] o = 5 -> [id |-> "no-data-manipulation", severity |-> WARNING, enabled |-> TRUE]

RuleIds == {RuleDef(o).id : o \in RuleObjs} \cup {"unknown-rule"}

Violation(ruleId, severity, line) == [ruleId |-> ruleId, severity |-> severity, line |-> line]

Returns(out) == [raised |-> FALSE, out |-> out]
Raises == [raised |-> TRUE, out |-> <<>>]

\* rule.check(statement, migration)
Check(o, statement, migration) ==
  CASE o = 1 ->
         IF statement.type = "DROP_TABLE"
         THEN Returns(<<Violation("no-drop-table", ERROR, statement.startLine)>>)
         ELSE Returns(<<>>)
    [] o = 2 ->
         IF statement.type = "CREATE_INDEX"
         THEN Returns(<<Violation("custom-warn", WARNING, statement.startLine),
                        Violation("custom-warn", WARNING, statement.startLine)>>)
         ELSE Returns(<<Violation("custom-warn", WARNING, statement.startLine)>>)
    [] o = 3 ->
         IF statement.type = "DROP_TABLE"
         THEN Returns(<<Violation("no-drop-table", INFO, statement.startLine)>>)
         ELSE Returns(<<>>)
    [] o = 4 ->
         IF statement.type = "DROP_TABLE"
         THEN Raises
         ELSE Returns(<<Violation("custom-flaky", "critical", statement.startLine)>>)
    [] o = 5 ->
         IF statement.type \in {"INSERT", "UPDATE", "DELETE"}
         THEN Returns(<<Violation("no-data-manipulation", WARNING, statement.startLine)>>)
         ELSE Returns(<<>>)

Statement(type, line) == [type |-> type, startLine |-> line]

MigA == [id |-> "A", statements |-> <<Statement("DROP_TABLE", 1), Statement("CREATE_INDEX", 2)>>]
MigB == [id |-> "B", statements |-> <<Statement("CREATE_INDEX", 1), Statement("DROP_TABLE", 3)>>]
MigE == [id |-> "E", statements |-> <<>>]
MigC == [id |-> "C", statements |-> <<Statement("INSERT", 1), Statement("DROP_TABLE", 2)>>]

Readable(migration) == [readable |-> TRUE, migration |-> migration]
Unreadable == [readable |-> FALSE, migration |-> MigE]

MigrationLists == {<<>>, <<MigA>>, <<MigB, MigA>>, <<MigE, MigB>>}
ChangedFileLists == {<<>>, <<Readable(MigA)>>, <<Unreadable, Readable(MigB)>>}

\* ------------------------------------------------------------------------
\* RuleEngine.analyzeMigration
\* ------------------------------------------------------------------------
\* Mutant of CatchCheckError: the error escapes the loops
CatchCheckError_Rethrow(acc) == [acc EXCEPT !.thrown = TRUE]

\* catch (error) { console.warn(...) }: the error is logged, the loop goes on
CatchCheckError(acc) == [acc EXCEPT !.warned = @ + 1]

\* Mutant of RuleSkipped: disabled rules are run as well
RuleSkipped_Never(en, o) == FALSE

\* if (!rule.enabled) continue;
RuleSkipped(en, o) == ~en[o]

\* for (const rule of this.rules) { ... } with this.rules = rs and rule.enabled = en
RECURSIVE RunRules(_, _, _, _, _, _)
RunRules(rs, en, migration, s, pos, acc) ==
  IF acc.thrown \/ pos > Len(rs) THEN acc
  ELSE IF RuleSkipped(en, rs[pos]) THEN RunRules(rs, en, migration, s, pos + 1, acc)
  ELSE LET r == Check(rs[pos], migration.statements[s], migration)
           called == [acc EXCEPT !.calls = Append(@, <<s, pos>>)]
       IN RunRules(rs, en, migration, s, pos + 1,
                   IF r.raised THEN CatchCheckError(called)
                   ELSE [called EXCEPT !.violations = @ \o r.out])

\* for (const statement of migration.statements) { ... }
RECURSIVE RunStatements(_, _, _, _, _)
RunStatements(rs, en, migration, s, acc) ==
  IF acc.thrown \/ s > Len(migration.statements) THEN acc
  ELSE RunStatements(rs, en, migration, s + 1, RunRules(rs, en, migration, s, 1, acc))

analyzeMigrationIn(rs, en, migration) ==
  RunStatements(rs, en, migration, 1,
                [violations |-> <<>>, calls |-> <<>>, warned |-> 0, thrown |-> FALSE])

analyzeMigration(migration) == analyzeMigrationIn(rules, enabled, migration)

\* violations.filter(v => v.severity === sev).length
CountSeverity(violations, sev) ==
  Cardinality({j \in 1..Len(violations) : violations[j].severity = sev})

\* RuleEngine.generateLintResult
generateLintResult(violations, totalFiles) ==
  [violations |-> violations,
   totalFiles |-> totalFiles,
   totalViolations |-> Len(violations),
   errorCount |-> CountSeverity(violations, ERROR),
   warningCount |-> CountSeverity(violations, WARNING),
   infoCount |-> CountSeverity(violations, INFO)]

\* The LintResult literal built by lintFile and lintChangedMigrations
InlineLintResult(violations, totalFiles) ==
  [violations |-> violations,
   totalFiles |-> totalFiles,
   totalViolations |-> Len(violations),
   errorCount |-> CountSeverity(violations, "error"),
   warningCount |-> CountSeverity(violations, "warning"),
   infoCount |-> CountSeverity(violations, "info")]

NoResult == generateLintResult(<<>>, 0)

\* ConfigManager.getDefaultConfig: failOnWarning false, failOnError true
DefaultConfig == [failOnWarning |-> FALSE, failOnError |-> TRUE]

\* ------------------------------------------------------------------------
\* RuleEngine registry operations
\* ------------------------------------------------------------------------
scanVars == <<scanPc, scanKind, scanInput, scanIdx, pending, allViolations, result, calls,
              warnings>>

\* Mutant of FindRuleIn: a miss selects the last rule, as this.rules.at(-1) would
FindRuleIn_LastOnMiss(rs, ruleId) ==
  LET hits == {p \in 1..Len(rs) : RuleDef(rs[p]).id = ruleId}
  IN IF hits = {} THEN Len(rs) ELSE SetMin(hits)

\* this.rules.find(r => r.id === ruleId): position of the rule, 0 if none
FindRuleIn(rs, ruleId) ==
  LET hits == {p \in 1..Len(rs) : RuleDef(rs[p]).id = ruleId}
  IN IF hits = {} THEN 0 ELSE SetMin(hits)

FindRule(ruleId) == FindRuleIn(rules, ruleId)

\* The registry operation that ran last: found tells whether a rule with its id was
\* registered when it was called.
Op(name, ruleId) == [op |-> name, found |-> FindRule(ruleId) # 0]
NoOp == [op |-> "none", found |-> FALSE]

addRule(o) ==
  /\ Len(rules) < MaxRules
  /\ rules' = Append(rules, o)
  /\ lastOp' = Op("addRule", RuleDef(o).id)
  /\ UNCHANGED <<enabled, scanVars, parserVars, pureVars, extVars>>

KeptByRemove(ruleId, o) == RuleDef(o).id # ruleId

removeRule(ruleId) ==
  /\ rules' = SelectSeq(rules, LAMBDA o : KeptByRemove(ruleId, o))
  /\ lastOp' = Op("removeRule", ruleId)
  /\ UNCHANGED <<enabled, scanVars, parserVars, pureVars, extVars>>

\* Mutant of SetEnabledIn: every rule with the id is switched, not only the first
SetEnabledIn_AllMatches(rs, en, ruleId, value) ==
  [o \in DOMAIN en |->
     IF \E p \in 1..Len(rs) : rs[p] = o /\ RuleDef(o).id = ruleId THEN value ELSE en[o]]

\* const rule = this.rules.find(...); if (rule) { rule.enabled = value; }
SetEnabledIn(rs, en, ruleId, value) ==
  IF FindRuleIn(rs, ruleId) # 0
  THEN [en EXCEPT ![rs[FindRuleIn(rs, ruleId)]] = value]
  ELSE en

SetEnabled(ruleId, value) == SetEnabledIn(rules, enabled, ruleId, value)

\* Mutant of enableRule: every registered rule with the id is enabled
enableRule_AllDuplicates(ruleId) ==
  /\ enabled' = [o \in DOMAIN enabled |->
                   IF \E p \in 1..Len(rules) : rules[p] = o /\ RuleDef(o).id = ruleId
                   THEN TRUE ELSE enabled[o]]
  /\ lastOp' = Op("enableRule", ruleId)
  /\ UNCHANGED <<rules, scanVars, parserVars, pureVars, extVars>>

enableRule(ruleId) ==
  /\ enabled' = SetEnabled(ruleId, TRUE)
  /\ lastOp' = Op("enableRule", ruleId)
  /\ UNCHANGED <<rules, scanVars, parserVars, pureVars, extVars>>

disableRule(ruleId) ==
  /\ enabled' = SetEnabled(ruleId, FALSE)
  /\ lastOp' = Op("disableRule", ruleId)
  /\ UNCHANGED <<rules, scanVars, parserVars, pureVars, extVars>>

\* getEnabledRules / getAllRules / getRuleById
getEnabledRules == SelectSeq(rules, LAMBDA o : enabled[o])
getAllRules == rules
getRuleById(ruleId) == IF FindRule(ruleId) # 0 THEN rules[FindRule(ruleId)] ELSE 0

\* ------------------------------------------------------------------------
\* RuleEngine.analyzeMigrations
\* ------------------------------------------------------------------------
\* Mutant of PushViolations: the violations of a migration are put in front
PushViolations_InFront(all, violations) == violations \o all

\* allViolations.push(...violations)
PushViolations(all, violations) == all \o violations

\* The call runs up to its first await: the first migration is analysed at once.
StartAnalyzeMigrations(migrations) ==
  /\ scanPc = "idle"
  /\ scanKind' = "analyzeMigrations"
  /\ scanInput' = migrations
  /\ allViolations' = <<>>
  /\ IF migrations = <<>>
     THEN /\ result' = generateLintResult(<<>>, Len(migrations))
          /\ scanPc' = "done"
          /\ UNCHANGED <<scanIdx, pending, calls, warnings>>
     ELSE LET r == analyzeMigration(migrations[1])
          IN /\ pending' = r.violations
             /\ calls' = r.calls
             /\ warnings' = warnings + r.warned
             /\ scanIdx' = 1
             /\ scanPc' = IF r.thrown THEN "rejected" ELSE "awaiting"
             /\ UNCHANGED result
  /\ lastOp' = NoOp
  /\ UNCHANGED <<rules, enabled, parserVars, pureVars, extVars>>

\* Mutant of ResumeAnalyzeMigrations: analyzeMigration yields to the event loop after
\* the first statement of a migration, and a disableRule of the first registered rule
\* that was waiting takes effect for the remaining statements
ResumeAnalyzeMigrations_YieldsPerStatement ==
  /\ scanPc = "awaiting"
  /\ scanKind = "analyzeMigrations"
  /\ allViolations' = PushViolations(allViolations, pending)
  /\ IF scanIdx < Len(scanInput)
     THEN LET migration == scanInput[scanIdx + 1]
              start == [violations |-> <<>>, calls |-> <<>>, warned |-> 0, thrown |-> FALSE]
              later == IF rules = <<>> THEN enabled ELSE [enabled EXCEPT ![rules[1]] = FALSE]
              r == IF migration.statements = <<>> THEN start
                   ELSE RunStatements(rules, later, migration, 2,
                                      RunRules(rules, enabled, migration, 1, 1, start))
          IN /\ pending' = r.violations
             /\ calls' = r.calls
             /\ warnings' = warnings + r.warned
             /\ scanIdx' = scanIdx + 1
             /\ scanPc' = IF r.thrown THEN "rejected" ELSE "awaiting"
             /\ UNCHANGED result
     ELSE /\ result' = generateLintResult(allViolations', Len(scanInput))
          /\ scanPc' = "done"
          /\ pending' = <<>>
          /\ UNCHANGED <<scanIdx, calls, warnings>>
  /\ UNCHANGED <<rules, enabled, scanKind, scanInput, lastOp, parserVars, pureVars, extVars>>

\* Continuation after "await this.analyzeMigration(migration)"
ResumeAnalyzeMigrations ==
  /\ scanPc = "awaiting"
  /\ scanKind = "analyzeMigrations"
  /\ allViolations' = PushViolations(allViolations, pending)
  /\ IF scanIdx < Len(scanInput)
     THEN LET r == analyzeMigration(scanInput[scanIdx + 1])
          IN /\ pending' = r.violations
             /\ calls' = r.calls
             /\ warnings' = warnings + r.warned
             /\ scanIdx' = scanIdx + 1
             /\ scanPc' = IF r.thrown THEN "rejected" ELSE "awaiting"
             /\ UNCHANGED result
     ELSE /\ result' = generateLintResult(allViolations', Len(scanInput))
          /\ scanPc' = "done"
          /\ pending' = <<>>
          /\ UNCHANGED <<scanIdx, calls, warnings>>
  /\ UNCHANGED <<rules, enabled, scanKind, scanInput, lastOp, parserVars, pureVars, extVars>>

\* ------------------------------------------------------------------------
\* PrismaStrongMigrationsLinter.lintFile / lintChangedMigrations
\* ------------------------------------------------------------------------
lintFile(file) ==
  /\ scanPc = "idle"
  /\ scanKind' = "lintFile"
  /\ scanInput' = <<file>>
  /\ scanIdx' = 1
  /\ IF ~file.readable
     THEN /\ scanPc' = "rejected"
          /\ UNCHANGED <<allViolations, result, calls, warnings>>
     ELSE LET r == analyzeMigration(file.migration)
          IN /\ calls' = r.calls
             /\ warnings' = warnings + r.warned
             /\ allViolations' = r.violations
             /\ IF r.thrown
                THEN scanPc' = "rejected" /\ UNCHANGED result
                ELSE scanPc' = "done" /\ result' = InlineLintResult(r.violations, 1)
  /\ lastOp' = NoOp
  /\ UNCHANGED <<rules, enabled, pending, parserVars, pureVars, extVars>>

StartLintChangedMigrations(changedFiles) ==
  /\ scanPc = "idle"
  /\ scanKind' = "lintChangedMigrations"
  /\ scanInput' = changedFiles
  /\ allViolations' = <<>>
  /\ IF Len(changedFiles) = 0
     THEN /\ result' = InlineLintResult(<<>>, 0)
          /\ scanPc' = "done"
          /\ UNCHANGED scanIdx
     ELSE /\ scanPc' = "awaiting"
          /\ scanIdx' = 1
          /\ UNCHANGED result
  /\ lastOp' = NoOp
  /\ UNCHANGED <<rules, enabled, pending, calls, warnings, parserVars, pureVars, extVars>>

\* Mutant of LintChangedFile: the error of a file that cannot be scanned is not caught
LintChangedFile_Rejects ==
  /\ scanPc = "awaiting"
  /\ scanKind = "lintChangedMigrations"
  /\ LET file == scanInput[scanIdx]
         r == analyzeMigration(file.migration)
     IN IF file.readable /\ ~r.thrown
        THEN /\ allViolations' = allViolations \o r.violations
             /\ calls' = r.calls
             /\ warnings' = warnings + r.warned
             /\ IF scanIdx < Len(scanInput)
                THEN /\ scanIdx' = scanIdx + 1
                     /\ UNCHANGED <<scanPc, result>>
                ELSE /\ result' = InlineLintResult(allViolations', Len(scanInput))
                     /\ scanPc' = "done"
                     /\ UNCHANGED scanIdx
        ELSE /\ scanPc' = "rejected"
             /\ UNCHANGED <<allViolations, calls, warnings, scanIdx, result>>
  /\ UNCHANGED <<rules, enabled, scanKind, scanInput, pending, lastOp, parserVars, pureVars, extVars>>

\* One iteration of "for (const filePath of changedFiles)"; after the last one the
\* LintResult is built.
LintChangedFile ==
  /\ scanPc = "awaiting"
  /\ scanKind = "lintChangedMigrations"
  /\ LET file == scanInput[scanIdx]
         r == analyzeMigration(file.migration)
     IN IF file.readable /\ ~r.thrown
        THEN /\ allViolations' = allViolations \o r.violations
             /\ calls' = r.calls
             /\ warnings' = warnings + r.warned
        ELSE /\ warnings' = warnings + 1
             /\ UNCHANGED <<allViolations, calls>>
  /\ IF scanIdx < Len(scanInput)
     THEN /\ scanIdx' = scanIdx + 1
          /\ UNCHANGED <<scanPc, result>>
     ELSE /\ result' = InlineLintResult(allViolations', Len(scanInput))
          /\ scanPc' = "done"
          /\ UNCHANGED scanIdx
  /\ UNCHANGED <<rules, enabled, scanKind, scanInput, pending, lastOp, parserVars, pureVars, extVars>>

\* The caller receives the settled promise; the engine is ready for the next call.
ReturnResult ==
  /\ scanPc \in {"done", "rejected"}
  /\ scanPc' = "idle"
  /\ scanKind' = "none"
  /\ scanInput' = <<>>
  /\ scanIdx' = 0
  /\ pending' = <<>>
  /\ allViolations' = <<>>
  /\ result' = NoResult
  /\ calls' = <<>>
  /\ warnings' = 0
  /\ UNCHANGED <<rules, enabled, lastOp, parserVars, pureVars, extVars>>

\* ------------------------------------------------------------------------
\* A second RuleEngine.analyzeMigrations call in flight on the same engine
\* ------------------------------------------------------------------------
\* The second call before it is made; its allViolations is a local of the call
OtherNotCalled ==
  [pc |-> "idle", input |-> <<>>, idx |-> 0, pending |-> <<>>, allViolations |-> <<>>,
   result |-> NoResult, overlapped |-> FALSE]

\* Both calls are suspended at their await, or one is and the other has resolved
Overlapping == scanPc = "awaiting" /\ scanKind = "analyzeMigrations"

\* analyzeMigrations(migrations) up to its first await
StartOtherAnalyzeMigrations(migrations) ==
  /\ otherCall.pc = "idle"
  /\ otherCall' =
       IF migrations = <<>>
       THEN [OtherNotCalled EXCEPT !.pc = "done", !.input = migrations,
                                   !.result = generateLintResult(<<>>, Len(migrations)),
                                   !.overlapped = Overlapping]
       ELSE LET r == analyzeMigration(migrations[1])
            IN [OtherNotCalled EXCEPT !.pc = IF r.thrown THEN "rejected" ELSE "awaiting",
                                      !.input = migrations, !.idx = 1,
                                      !.pending = r.violations,
                                      !.overlapped = Overlapping]
  /\ UNCHANGED <<parserVars, engineVars, pureVars, linterVars, shareVars>>

\* Mutant of ResumeOtherAnalyzeMigrations: allViolations is a field of the engine that
\* both calls push to
ResumeOtherAnalyzeMigrations_SharedBuffer ==
  /\ otherCall.pc = "awaiting"
  /\ allViolations' = PushViolations(allViolations, otherCall.pending)
  /\ IF otherCall.idx < Len(otherCall.input)
     THEN LET r == analyzeMigration(otherCall.input[otherCall.idx + 1])
          IN otherCall' = [otherCall EXCEPT !.pc = IF r.thrown THEN "rejected" ELSE "awaiting",
                                            !.idx = @ + 1,
                                            !.pending = r.violations,
                                            !.overlapped = @ \/ Overlapping]
     ELSE otherCall' = [otherCall EXCEPT !.pc = "done",
                                         !.pending = <<>>,
                                         !.result = generateLintResult(allViolations',
                                                                       Len(otherCall.input)),
                                         !.overlapped = @ \/ Overlapping]
  /\ UNCHANGED <<rules, enabled, scanPc, scanKind, scanInput, scanIdx, pending, result, calls,
                 warnings, lastOp>>
  /\ UNCHANGED <<parserVars, pureVars, linterVars, shareVars>>

\* Continuation of the second call after "await this.analyzeMigration(migration)"
ResumeOtherAnalyzeMigrations ==
  /\ otherCall.pc = "awaiting"
  /\ LET all == PushViolations(otherCall.allViolations, otherCall.pending)
     IN IF otherCall.idx < Len(otherCall.input)
        THEN LET r == analyzeMigration(otherCall.input[otherCall.idx + 1])
             IN otherCall' = [otherCall EXCEPT !.pc = IF r.thrown THEN "rejected" ELSE "awaiting",
                                               !.idx = @ + 1,
                                               !.pending = r.violations,
                                               !.allViolations = all,
                                               !.overlapped = @ \/ Overlapping]
        ELSE otherCall' = [otherCall EXCEPT !.pc = "done",
                                            !.pending = <<>>,
                                            !.allViolations = all,
                                            !.result = generateLintResult(all, Len(otherCall.input)),
                                            !.overlapped = @ \/ Overlapping]
  /\ UNCHANGED <<parserVars, engineVars, pureVars, linterVars, shareVars>>

\* The caller has taken the result of the second call
ReturnOtherResult ==
  /\ otherCall.pc \in {"done", "rejected"}
  /\ otherCall' = OtherNotCalled
  /\ UNCHANGED <<parserVars, engineVars, pureVars, linterVars, shareVars>>

\* ------------------------------------------------------------------------
\* Two RuleEngine instances and the caller that built them
\* ------------------------------------------------------------------------
Engines == {1, 2}

\* The rule objects the caller registers: the built-in rule 1 and the custom rule 2
ShareObjs == {1, 2}
ShareIds == {RuleDef(o).id : o \in ShareObjs}

\* constructor(rules: Rule[] = []) { this.rules = rules; }: this.rules is the array the
\* caller gave, or a new empty array when none was given
NewRuleEngine(given) == [shared |-> given, own |-> <<>>]

\* this.rules of engine e
RulesOf(e) == IF engineRules[e].shared THEN callerArray ELSE engineRules[e].own

\* Nothing has been returned to the caller yet; the caller keeps a returned list only
\* until it next changes a registry or its own array
NothingReturned == [kind |-> "none", array |-> "fresh", engine |-> 0, list |-> <<>>]

\* addRule, removeRule, enableRule or disableRule of engine e, or any other call
Management(e) == [management |-> TRUE, engine |-> e]
OtherCall == [management |-> FALSE, engine |-> 0]
NoCall == OtherCall

shareFrame == <<rules, scanVars, lastOp, parserVars, pureVars, linterVars, otherCall>>

\* this.rules.push(rule)
addRuleOn(e, o) ==
  /\ shareOp' = Management(e)
  /\ Len(RulesOf(e)) < MaxRules
  /\ IF engineRules[e].shared
     THEN callerArray' = Append(callerArray, o) /\ UNCHANGED engineRules
     ELSE engineRules' = [engineRules EXCEPT ![e].own = Append(@, o)] /\ UNCHANGED callerArray
  /\ returned' = NothingReturned
  /\ UNCHANGED <<enabled, shareFrame>>

\* this.rules = this.rules.filter(...): this.rules becomes a new array
removeRuleOn(e, ruleId) ==
  /\ shareOp' = Management(e)
  /\ engineRules' = [engineRules EXCEPT
                       ![e] = [shared |-> FALSE,
                               own |-> SelectSeq(RulesOf(e), LAMBDA o : KeptByRemove(ruleId, o))]]
  /\ returned' = NothingReturned
  /\ UNCHANGED <<callerArray, enabled, shareFrame>>

\* rule.enabled = true on the rule object found
enableRuleOn(e, ruleId) ==
  /\ shareOp' = Management(e)
  /\ enabled' = SetEnabledIn(RulesOf(e), enabled, ruleId, TRUE)
  /\ returned' = NothingReturned
  /\ UNCHANGED <<callerArray, engineRules, shareFrame>>

\* rule.enabled = false on the rule object found
disableRuleOn(e, ruleId) ==
  /\ shareOp' = Management(e)
  /\ enabled' = SetEnabledIn(RulesOf(e), enabled, ruleId, FALSE)
  /\ returned' = NothingReturned
  /\ UNCHANGED <<callerArray, engineRules, shareFrame>>

\* return [...this.rules]: a new array
getAllRulesOf(e) ==
  /\ shareOp' = OtherCall
  /\ returned' = [kind |-> "getAllRules", array |-> "fresh", engine |-> e, list |-> RulesOf(e)]
  /\ UNCHANGED <<callerArray, engineRules, enabled, shareFrame>>

\* return this.rules.filter(rule => rule.enabled): a new array
getEnabledRulesOf(e) ==
  /\ shareOp' = OtherCall
  /\ returned' = [kind |-> "getEnabledRules", array |-> "fresh", engine |-> e,
                  list |-> SelectSeq(RulesOf(e), LAMBDA o : enabled[o])]
  /\ UNCHANGED <<callerArray, engineRules, enabled, shareFrame>>

\* return this.rules.find(rule => rule.id === ruleId): the rule object or undefined
getRuleByIdOf(e, ruleId) ==
  /\ shareOp' = OtherCall
  /\ returned' = [kind |-> "getRuleById", array |-> "fresh", engine |-> e,
                  list |-> IF FindRuleIn(RulesOf(e), ruleId) # 0
                           THEN <<RulesOf(e)[FindRuleIn(RulesOf(e), ruleId)]>> ELSE <<>>]
  /\ UNCHANGED <<callerArray, engineRules, enabled, shareFrame>>

\* The caller empties the list an accessor returned: list.length = 0
ClearReturnedList ==
  /\ shareOp' = OtherCall
  /\ returned.kind \in {"getAllRules", "getEnabledRules"}
  /\ returned.list # <<>>
  /\ returned' = [returned EXCEPT !.list = <<>>]
  /\ IF returned.array = "fresh"
     THEN UNCHANGED <<callerArray, engineRules>>
     ELSE IF engineRules[returned.engine].shared
     THEN callerArray' = <<>> /\ UNCHANGED engineRules
     ELSE engineRules' = [engineRules EXCEPT ![returned.engine].own = <<>>]
          /\ UNCHANGED callerArray
  /\ UNCHANGED <<enabled, shareFrame>>

\* The caller pushes a rule onto the array it gave to the constructors
PushOnCallerArray(o) ==
  /\ shareOp' = OtherCall
  /\ Len(callerArray) < MaxRules
  /\ callerArray' = Append(callerArray, o)
  /\ returned' = NothingReturned
  /\ UNCHANGED <<engineRules, enabled, shareFrame>>

\* await engine.analyzeMigration(migration)
analyzeMigrationOn(e, migration) ==
  /\ shareOp' = OtherCall
  /\ returned' = [kind |-> "analyzeMigration", array |-> "fresh", engine |-> e,
                  list |-> analyzeMigrationIn(RulesOf(e), enabled, migration).violations]
  /\ UNCHANGED <<callerArray, engineRules, enabled, shareFrame>>

\* ------------------------------------------------------------------------
\* PrismaStrongMigrationsLinter.shouldExit
\* ------------------------------------------------------------------------
\* Bound on the number of violations of the results given to shouldExit.
MaxViolations == 3

Configs == [failOnWarning : BOOLEAN, failOnError : BOOLEAN]

SeverityLists == UNION {[1..n -> {ERROR, WARNING, INFO}] : n \in 0..MaxViolations}

LintResults ==
  {generateLintResult([n \in 1..Len(sevs) |-> Violation("custom-warn", sevs[n], n)], 1) :
     sevs \in SeverityLists}

\* Mutant of shouldExit: any violation makes the process exit
shouldExit_AnyViolation(lintResult) ==
  IF config.failOnError /\ lintResult.totalViolations > 0 THEN TRUE
  ELSE IF config.failOnWarning /\ lintResult.warningCount > 0 THEN TRUE
  ELSE FALSE

shouldExit(lintResult) ==
  IF config.failOnError /\ lintResult.errorCount > 0 THEN TRUE
  ELSE IF config.failOnWarning /\ lintResult.warningCount > 0 THEN TRUE
  ELSE FALSE

NotReturned == [returned |-> FALSE, value |-> FALSE]

\* if (linter.shouldExit(result)) { process.exit(1); }
CallShouldExit ==
  /\ ~shouldExitRet.returned
  /\ shouldExitRet' = [returned |-> TRUE, value |-> shouldExit(shouldExitArg)]
  /\ UNCHANGED <<clsStatement, clsType, config, shouldExitArg>>
  /\ UNCHANGED <<parserVars, engineVars, extVars>>

\* ------------------------------------------------------------------------
\* ConfigManager.mergeWithDefaults, PrismaStrongMigrationsLinter.initializeRules
\* ------------------------------------------------------------------------
\* The values a configuration file can give to "enabled"; a field that is not given
\* reads as undefined.
JsTrue == "true"
JsFalse == "false"
JsBoolean(b) == IF b THEN JsTrue ELSE JsFalse

\* !!value
Truthy(value) == value \notin {JsFalse, Undefined}

BuiltInIds == {RuleDef(getBuiltInRules[p]).id : p \in 1..Len(getBuiltInRules)}

\* The entries a user can write for a rule: every combination of a given or omitted
\* "enabled" and a given or omitted "severity"
RuleConfigs == [enabled : {JsTrue, JsFalse, Undefined}, severity : {ERROR, WARNING, INFO, Undefined}]

\* The "rules" objects of the user configurations: entries for some of the built-in rules
UserRuleConfigs == UNION {[ids -> RuleConfigs] : ids \in SUBSET BuiltInIds}

\* ConfigManager.getDefaultRuleConfig
getDefaultRuleConfig ==
  [id \in BuiltInIds |->
     LET o == CHOOSE b \in {getBuiltInRules[p] : p \in 1..Len(getBuiltInRules)} : RuleDef(b).id = id
     IN [enabled |-> JsBoolean(RuleDef(o).enabled), severity |-> RuleDef(o).severity]]

\* rules: { ...this.getDefaultRuleConfig(), ...userConfig.rules }: a user entry replaces
\* the default entry of the rule as a whole
mergeWithDefaults(user) ==
  [id \in DOMAIN getDefaultRuleConfig \cup DOMAIN user |->
     IF id \in DOMAIN user THEN user[id] ELSE getDefaultRuleConfig[id]]

\* this.config = this.loadConfig(configPath)
loadConfig ==
  /\ linterPc = "new"
  /\ configRules' = mergeWithDefaults(userRules)
  /\ linterPc' = "configured"
  /\ UNCHANGED <<userRules, linterRules, linterResult>>
  /\ UNCHANGED <<parserVars, engineVars, pureVars, otherCall, shareVars>>

\* The rule registered for the built-in rule o: { ...rule, enabled: ruleConfig.enabled,
\* severity: ruleConfig.severity || rule.severity } or, without an entry, the rule itself
ConfiguredRule(o) ==
  LET rule == RuleDef(o)
  IN IF rule.id \in DOMAIN configRules
     THEN [id |-> rule.id,
           enabled |-> configRules[rule.id].enabled,
           severity |-> IF configRules[rule.id].severity # Undefined
                        THEN configRules[rule.id].severity ELSE rule.severity,
           check |-> o]
     ELSE [id |-> rule.id, enabled |-> JsBoolean(rule.enabled), severity |-> rule.severity,
           check |-> o]

\* PrismaStrongMigrationsLinter.initializeRules
initializeRules ==
  /\ linterPc = "configured"
  /\ linterRules' = [p \in 1..Len(getBuiltInRules) |-> ConfiguredRule(getBuiltInRules[p])]
  /\ linterPc' = "ready"
  /\ UNCHANGED <<userRules, configRules, linterResult>>
  /\ UNCHANGED <<parserVars, engineVars, pureVars, otherCall, shareVars>>

\* The check functions of the registered rules, in registration order, and the truth
\* value of their enabled fields
LinterChecks == [p \in 1..Len(linterRules) |-> linterRules[p].check]
LinterEnabled ==
  [o \in {linterRules[p].check : p \in 1..Len(linterRules)} |->
     \E p \in 1..Len(linterRules) : linterRules[p].check = o /\ Truthy(linterRules[p].enabled)]

\* ruleEngine.getEnabledRules() of the linter's engine
LinterEnabledRules == SelectSeq(linterRules, LAMBDA r : Truthy(r.enabled))

LinterMigrations == {MigA, MigC, MigE}

\* PrismaStrongMigrationsLinter.lintFile on the engine initializeRules filled
lintFileConfigured(migration) ==
  /\ linterPc = "ready"
  /\ linterResult' =
       InlineLintResult(analyzeMigrationIn(LinterChecks, LinterEnabled, migration).violations, 1)
  /\ linterPc' = "linted"
  /\ UNCHANGED <<userRules, configRules, linterRules>>
  /\ UNCHANGED <<parserVars, engineVars, pureVars, otherCall, shareVars>>

\* ------------------------------------------------------------------------
\* Reference definitions used by the properties
\* ------------------------------------------------------------------------
RECURSIVE FlattenSeq(_)
FlattenSeq(ss) == IF ss = <<>> THEN <<>> ELSE Head(ss) \o FlattenSeq(Tail(ss))

AllMigrations == {MigA, MigB, MigE}

\* The migration analysed last by the call in flight and the violations it returned.
HasAnalysis ==
  \/ scanKind = "analyzeMigrations" /\ scanPc = "awaiting"
  \/ scanKind = "lintFile" /\ scanPc = "done"

AnalysedMigration ==
  IF scanKind = "analyzeMigrations" THEN scanInput[scanIdx] ELSE scanInput[1].migration

AnalysedViolations == IF scanKind = "analyzeMigrations" THEN pending ELSE allViolations

\* Registry positions of the enabled rules, in ascending order.
RefEnabledPositions == {p \in 1..Len(rules) : enabled[rules[p]]}

RefEnabledSeq ==
  [n \in 1..Cardinality(RefEnabledPositions) |->
     CHOOSE p \in RefEnabledPositions : Cardinality({q \in RefEnabledPositions : q <= p}) = n]

RefRaises(migration, s, p) == Check(rules[p], migration.statements[s], migration).raised
RefOut(migration, s, p) == Check(rules[p], migration.statements[s], migration).out

\* What the enabled rules that do not fail on statement s report for it, the failing
\* rules being left out of the registry.
RefStatementOutput(migration, s) ==
  LET ok == SelectSeq(RefEnabledSeq, LAMBDA p : ~RefRaises(migration, s, p))
  IN FlattenSeq([n \in 1..Len(ok) |-> RefOut(migration, s, ok[n])])

RefMigrationOutput(migration) ==
  FlattenSeq([s \in 1..Len(migration.statements) |-> RefStatementOutput(migration, s)])

RefAllPairs(migration) ==
  {<<s, p>> : s \in 1..Len(migration.statements), p \in RefEnabledPositions}

\* C1: a rule whose check throws for a (statement, rule) pair contributes nothing for
\* that pair, analyzeMigration does not throw, and every other enabled rule on that
\* statement and all rules on later statements are still invoked and contribute what
\* they would contribute if the failing rule were absent.
C1_FailureIsolation ==
  /\ scanPc = "rejected" => (scanKind = "lintFile" /\ ~scanInput[1].readable)
  /\ HasAnalysis =>
       /\ AnalysedViolations = RefMigrationOutput(AnalysedMigration)
       /\ {calls[n] : n \in 1..Len(calls)} = RefAllPairs(AnalysedMigration)

\* C1 witness: a check has thrown during an analysis, a rule registered after the
\* failing one reported violations for the same statement.
C1_Witness ==
  /\ HasAnalysis
  /\ \E n \in 1..Len(calls) :
       /\ RefRaises(AnalysedMigration, calls[n][1], calls[n][2])
       /\ \E m \in (n + 1)..Len(calls) :
            /\ calls[m][1] = calls[n][1]
            /\ RefOut(AnalysedMigration, calls[m][1], calls[m][2]) # <<>>
  /\ AnalysedViolations # <<>>

\* Expected invocation order: statements in migration order, enabled rules in
\* registration order.
RefCallOrder(migration) ==
  LET e == Len(RefEnabledSeq)
  IN [n \in 1..(Len(migration.statements) * e) |->
        <<((n - 1) \div e) + 1, RefEnabledSeq[((n - 1) % e) + 1]>>]

\* C3: analyzeMigration invokes check exactly once per (statement, enabled rule), in
\* statement order then registration order, never for a disabled rule, and returns the
\* concatenation of the non-failing results in that order.
C3_InvocationOrder ==
  HasAnalysis =>
    /\ calls = RefCallOrder(AnalysedMigration)
    /\ \A n \in 1..Len(calls) : enabled[rules[calls[n][2]]]
    /\ AnalysedViolations =
         FlattenSeq([n \in 1..Len(calls) |->
                       RefOut(AnalysedMigration, calls[n][1], calls[n][2])])

\* C3 witness: two statements were checked by at least two enabled rules while a
\* disabled rule was registered, and both statements produced violations.
C3_Witness ==
  /\ HasAnalysis
  /\ Len(AnalysedMigration.statements) >= 2
  /\ Cardinality(RefEnabledPositions) >= 2
  /\ Len(calls) >= 4
  /\ \E v, w \in {AnalysedViolations[n] : n \in 1..Len(AnalysedViolations)} : v.line # w.line

\* What the registry rs reports for a migration when rule object o is left out.
RefOutputSkipping(rs, en, migration, o) ==
  FlattenSeq([s \in 1..Len(migration.statements) |->
    FlattenSeq([p \in 1..Len(rs) |->
      LET r == Check(rs[p], migration.statements[s], migration)
      IN IF en[rs[p]] /\ rs[p] # o /\ ~r.raised THEN r.out ELSE <<>>])])

WithoutRuleId(violations, ruleId) == SelectSeq(violations, LAMBDA v : v.ruleId # ruleId)

\* C4 as stated: after disableRule(id) on a registered rule a re-run reports no violation
\* with that ruleId, the other violations are unchanged and in the same order, and
\* enableRule(id) restores the original result.
C4_Original ==
  [][\A ruleId \in RuleIds :
       (disableRule(ruleId) /\ FindRule(ruleId) # 0) =>
         \A migration \in AllMigrations :
           LET before == analyzeMigration(migration).violations
               after == analyzeMigrationIn(rules', enabled', migration).violations
               restored == analyzeMigrationIn(rules', SetEnabledIn(rules', enabled', ruleId, TRUE),
                                              migration).violations
           IN /\ \A n \in 1..Len(after) : after[n].ruleId # ruleId
              /\ after = WithoutRuleId(before, ruleId)
              /\ restored = before]_vars

\* C4 amended: disableRule(id) removes from a re-run exactly the violations of the first
\* registered rule with that id; what every other rule reports, later rules with the same
\* id included, is unchanged and in the same order; enableRule(id) afterwards restores
\* the original result when that rule was enabled before.
C4_DisableFirstMatch ==
  [][\A ruleId \in RuleIds :
       (disableRule(ruleId) /\ FindRule(ruleId) # 0) =>
         \A migration \in AllMigrations :
           LET o == rules[FindRule(ruleId)]
               before == analyzeMigration(migration).violations
               after == analyzeMigrationIn(rules', enabled', migration).violations
               restored == analyzeMigrationIn(rules', SetEnabledIn(rules', enabled', ruleId, TRUE),
                                              migration).violations
           IN /\ after = RefOutputSkipping(rules, enabled, migration, o)
              /\ enabled[o] => restored = before]_vars

\* C4 witness: a re-run finished while the first rule registered under an id is disabled,
\* a later rule and another rule reported for a statement the disabled rule fires on.
C4_Witness ==
  /\ scanKind = "analyzeMigrations" /\ scanPc = "done"
  /\ \E ruleId \in RuleIds :
       /\ FindRule(ruleId) # 0
       /\ ~enabled[rules[FindRule(ruleId)]]
       /\ \E p \in RefEnabledPositions : p # FindRule(ruleId)
  /\ result.violations # <<>>

\* C5: every LintResult satisfies errorCount + warningCount + infoCount =
\* totalViolations = length of violations, whatever severity the violations carry.
C5_CountsAddUp ==
  scanPc = "done" =>
    /\ result.errorCount + result.warningCount + result.infoCount = result.totalViolations
    /\ result.totalViolations = Len(result.violations)

\* Registry positions of the rules registered under an id.
RefPositionsOf(ruleId) == {p \in 1..Len(rules) : RuleDef(rules[p]).id = ruleId}

RefRemoveAt(rs, p) == SubSeq(rs, 1, p - 1) \o SubSeq(rs, p + 1, Len(rs))

\* C11: when several registered rules share an id, removeRule(id) removes only the first
\* of them in registration order; the later ones stay registered in their relative order,
\* are returned by getAllRules and are still evaluated.
C11_RemoveFirstOnly ==
  [][\A ruleId \in RuleIds :
       (removeRule(ruleId) /\ Cardinality(RefPositionsOf(ruleId)) >= 2) =>
         /\ rules' = RefRemoveAt(rules, SetMin(RefPositionsOf(ruleId)))
         /\ \E p \in 1..Len(rules') : RuleDef(rules'[p]).id = ruleId]_vars

\* C12: removeRule, enableRule and disableRule called with an id that no registered rule
\* has leave the registry as it was: the same rules in the same order with the same
\* enabled flags, and every scan returns what it returned before the call.
C12_UnknownIdNoOp ==
  [][\A ruleId \in RuleIds :
       (/\ RefPositionsOf(ruleId) = {}
        /\ removeRule(ruleId) \/ enableRule(ruleId) \/ disableRule(ruleId)) =>
         /\ rules' = rules
         /\ enabled' = enabled
         /\ \A migration \in AllMigrations :
              analyzeMigrationIn(rules', enabled', migration).violations
                = analyzeMigration(migration).violations]_vars

\* C12 witness: an operation was called with an id that no rule has, on a registry that
\* holds an enabled and a disabled rule.
C12_Witness ==
  /\ lastOp.op \in {"removeRule", "enableRule", "disableRule"}
  /\ ~lastOp.found
  /\ \E p, q \in 1..Len(rules) : enabled[rules[p]] /\ ~enabled[rules[q]]

\* C13: analyzeMigrations returns the concatenation, in the order of the input list, of
\* what analyzeMigration returns for each migration, with totalFiles the number of
\* migrations given whether or not they produced violations; for the empty list the
\* violations are empty and all five counts are 0.
C13_ConcatenationInInputOrder ==
  (scanKind = "analyzeMigrations" /\ scanPc = "done") =>
    /\ result.violations =
         FlattenSeq([n \in 1..Len(scanInput) |-> RefMigrationOutput(scanInput[n])])
    /\ result.totalFiles = Len(scanInput)
    /\ result.totalViolations = Len(result.violations)
    /\ scanInput = <<>> =>
         result = [violations |-> <<>>, totalFiles |-> 0, totalViolations |-> 0,
                   errorCount |-> 0, warningCount |-> 0, infoCount |-> 0]

\* C13 witness: a call with two migrations has resolved, both migrations produced
\* violations and the two orders of concatenation differ.
C13_Witness ==
  /\ scanKind = "analyzeMigrations" /\ scanPc = "done"
  /\ Len(scanInput) = 2
  /\ RefMigrationOutput(scanInput[1]) # <<>>
  /\ RefMigrationOutput(scanInput[2]) # <<>>
  /\ RefMigrationOutput(scanInput[1]) \o RefMigrationOutput(scanInput[2])
       # RefMigrationOutput(scanInput[2]) \o RefMigrationOutput(scanInput[1])
  /\ result.totalViolations > 0

\* What the first n changed files contribute: nothing for a file that cannot be scanned.
RefChangedOutput(n) ==
  FlattenSeq([m \in 1..n |-> IF scanInput[m].readable
                             THEN RefMigrationOutput(scanInput[m].migration)
                             ELSE <<>>])

\* Diagnostics of the first n changed files: one per file that cannot be scanned, one per
\* rule check that throws.
RECURSIVE RefChangedWarnings(_)
RefChangedWarnings(n) ==
  IF n = 0 THEN 0
  ELSE RefChangedWarnings(n - 1)
       + (IF scanInput[n].readable
          THEN Cardinality({sp \in RefAllPairs(scanInput[n].migration) :
                             RefRaises(scanInput[n].migration, sp[1], sp[2])})
          ELSE 1)

\* C17: in lintChangedMigrations a changed file whose scan or analysis fails contributes
\* no violations and a warning is emitted; every other changed file is still scanned and
\* analysed in list order, the call does not reject, and totalFiles is the number of
\* changed files, the failed ones included.
C17_ChangedFileFailureSkipped ==
  scanKind = "lintChangedMigrations" =>
    /\ scanPc # "rejected"
    /\ scanPc = "awaiting" =>
         /\ allViolations = RefChangedOutput(scanIdx - 1)
         /\ warnings = RefChangedWarnings(scanIdx - 1)
    /\ scanPc = "done" =>
         /\ result.violations = RefChangedOutput(Len(scanInput))
         /\ result.totalFiles = Len(scanInput)
         /\ warnings = RefChangedWarnings(Len(scanInput))

\* C17 witness: a call with a file that could not be scanned has resolved; a later file
\* contributed violations and the failed file is counted in totalFiles.
C17_Witness ==
  /\ scanKind = "lintChangedMigrations" /\ scanPc = "done"
  /\ \E n, m \in 1..Len(scanInput) :
       /\ n < m
       /\ ~scanInput[n].readable
       /\ scanInput[m].readable /\ RefMigrationOutput(scanInput[m].migration) # <<>>
  /\ result.violations # <<>>
  /\ result.totalFiles = Len(scanInput)
  /\ warnings >= 1

\* C18: shouldExit(result) is true exactly when failOnError is set and errorCount > 0,
\* or failOnWarning is set and warningCount > 0; info violations alone never make it
\* true, and with failOnError disabled errors alone never make it true.
C18_ShouldExit ==
  shouldExitRet.returned =>
    /\ shouldExitRet.value <=>
         \/ config.failOnError /\ shouldExitArg.errorCount > 0
         \/ config.failOnWarning /\ shouldExitArg.warningCount > 0
    /\ (shouldExitArg.errorCount = 0 /\ shouldExitArg.warningCount = 0) => ~shouldExitRet.value
    /\ (~config.failOnError /\ shouldExitArg.warningCount = 0) => ~shouldExitRet.value

\* C18 witness: shouldExit returned false for a result with errors and info violations
\* under a configuration with failOnError disabled and failOnWarning set.
C18_Witness ==
  /\ shouldExitRet.returned /\ ~shouldExitRet.value
  /\ ~config.failOnError /\ config.failOnWarning
  /\ shouldExitArg.errorCount > 0
  /\ shouldExitArg.infoCount > 0

\* ------------------------------------------------------------------------
\* Reference definitions for the parser properties
\* ------------------------------------------------------------------------
\* Positions of a text that lie inside a string literal, a -- comment or a /* */
\* comment (delimiters included), read as SQL: a block comment ends at the first */
\* that starts after its two opening characters, a string at its delimiter not
\* preceded by a backslash.
RECURSIVE RefScan(_, _, _, _)
RefScan(text, j, st, acc) ==
  IF j > Len(text) THEN acc
  ELSE LET c == text[j]
           n == IF j + 1 <= Len(text) THEN text[j + 1] ELSE Undefined
       IN CASE st = "normal" ->
                 IF c = DASH /\ n = DASH THEN RefScan(text, j + 2, "line", acc \cup {j, j + 1})
                 ELSE IF c = SLASH /\ n = STAR THEN RefScan(text, j + 2, "block", acc \cup {j, j + 1})
                 ELSE IF c \in {SQ, DQ} THEN RefScan(text, j + 1, c, acc \cup {j})
                 ELSE RefScan(text, j + 1, "normal", acc)
            [] st = "line" ->
                 RefScan(text, j + 1, IF c = NL THEN "normal" ELSE "line", acc \cup {j})
            [] st = "block" ->
                 IF c = STAR /\ n = SLASH THEN RefScan(text, j + 2, "normal", acc \cup {j, j + 1})
                 ELSE RefScan(text, j + 1, "block", acc \cup {j})
            [] OTHER ->
                 RefScan(text, j + 1, IF c = st /\ text[j - 1] # BS THEN "normal" ELSE st,
                         acc \cup {j})

RefInside(text) == RefScan(text, 1, "normal", {})

\* Number of characters of the text that precede raw span n.
SpanOffset(n) == Len(FlattenSeq(SubSeq(rawStatements, 1, n - 1)))

\* A line that holds code: not blank and not beginning with a comment marker.
RefIsCodeLine(line) ==
  \E j \in 1..Len(line) :
    /\ ~IsWhitespace(line[j])
    /\ \A h \in 1..(j - 1) : IsWhitespace(line[h])
    /\ ~(j < Len(line) /\ line[j] = DASH /\ line[j + 1] = DASH)
    /\ ~(j < Len(line) /\ line[j] = SLASH /\ line[j + 1] = STAR)

RefHasCodeLine(span) ==
  \E n \in 1..Len(SplitLines(span)) : RefIsCodeLine(SplitLines(span)[n])

RefFirstCodeLine(ls) == SetMin({n \in 1..Len(ls) : RefIsCodeLine(ls[n])})

Emitted == Len(statements') > Len(statements)
NewStatement == statements'[Len(statements')]

\* C2: the splitter never ends a span at a ; that lies inside a string literal, a --
\* comment or a /* */ comment; a boundary is produced only at a ; read outside them.
C2_NoBoundaryInsideQuoteOrComment ==
  [][(pc = "scan" /\ pc' = "scan" /\ Len(rawStatements') > Len(rawStatements)) =>
       (content[i] = SEMI /\ i \notin RefInside(content))]_vars

\* C6: when a raw span begins with comment-only or blank lines followed by code, the
\* statement's startLine is the source line of the first code line and its endLine the
\* line on which the span ends.
C6_StartLineIsFirstCodeLine ==
  [][Emitted =>
       LET span == rawStatements[k]
           before == SubSeq(content, 1, SpanOffset(k))
           first == RefFirstCodeLine(SplitLines(span))
       IN first > 1 =>
            /\ NewStatement.startLine = 1 + CountNewlines(before) + (first - 1)
            /\ NewStatement.endLine = 1 + CountNewlines(before \o span)]_vars

\* C7: every statement that creates an index, CREATE UNIQUE INDEX included, is
\* classified CREATE_INDEX.
C7_UniqueIndexIsCreateIndex ==
  \A n \in 1..Len(statements) :
    LET c == ToUpperCase(statements[n].content)
    IN (\/ StartsWith(c, kwCREATE \o <<SP>> \o kwINDEX)
        \/ StartsWith(c, kwCREATE \o <<SP>> \o kwUNIQUE \o <<SP>> \o kwINDEX))
       => statements[n].type = "CREATE_INDEX"

Semicolons == {j \in 1..Len(content) : content[j] = SEMI}

\* Every semicolon of the text closed a span: none was read inside a string or comment.
AllSemicolonsSplit ==
  Cardinality(Semicolons) = Len(rawStatements) - (IF Trim(current) # <<>> THEN 1 ELSE 0)

TrailingContent ==
  IF Semicolons = {} THEN content ELSE SubSeq(content, SetMax(Semicolons) + 1, Len(content))

\* The text cut after every semicolon, the unterminated remainder last.
RECURSIVE RefSplitAtSemicolons(_)
RefSplitAtSemicolons(text) ==
  LET semis == {j \in 1..Len(text) : text[j] = SEMI}
  IN IF text = <<>> THEN <<>>
     ELSE IF semis = {} THEN <<text>>
     ELSE <<SubSeq(text, 1, SetMin(semis))>>
          \o RefSplitAtSemicolons(SubSeq(text, SetMin(semis) + 1, Len(text)))

\* C9 as stated: with N top-level semicolons and none quoted or commented,
\* parseStatements returns N statements, plus one iff non-empty content follows the last.
C9_Original ==
  (ParseDone /\ AllSemicolonsSplit) =>
    Len(statements) = Cardinality(Semicolons) + (IF Trim(TrailingContent) # <<>> THEN 1 ELSE 0)

\* C9 amended: with no quoted or commented semicolons, parseStatements returns one
\* statement for each of the N terminated spans, and for the unterminated remainder,
\* that has a non-blank line not beginning with -- or /*; a span whose non-blank lines
\* all begin with a comment marker yields none.
C9_OneStatementPerCodeSpan ==
  (ParseDone /\ AllSemicolonsSplit) =>
    LET spans == RefSplitAtSemicolons(content)
    IN Len(statements) = Cardinality({n \in 1..Len(spans) : RefHasCodeLine(spans[n])})

\* C9 witness: several semicolons, all top-level; an empty span produced a statement, a
\* comment-only span did not.
C9_Witness ==
  /\ ParseDone /\ AllSemicolonsSplit
  /\ Cardinality(Semicolons) >= 2
  /\ \E n \in 1..Len(statements) : statements[n].content = <<SEMI>>
  /\ Len(statements) < Len(rawStatements)

\* C10: the content of a statement is the trimmed span with only the comment-only
\* lines before the first code line removed; every later line is kept unchanged.
C10_OnlyLeadingCommentLinesRemoved ==
  [][Emitted =>
       LET ls == SplitLines(Trim(rawStatements[k]))
       IN NewStatement.content = Trim(JoinLines(SubSeq(ls, RefFirstCodeLine(ls), Len(ls))))]_vars

\* The input ended inside a string literal or a block comment.
UnterminatedAtEnd == pc = "parse" /\ (inString \/ (inComment /\ commentType = "block"))

LastSpanStep == Parsing /\ k = Len(rawStatements) /\ k' = k + 1

\* C14 as stated: when the input ends inside an unterminated string or comment, the
\* remaining buffer is emitted as the final statement of the result.
C14_Original ==
  [][(LastSpanStep /\ UnterminatedAtEnd) => (rawStatements[k] = current /\ Emitted)]_vars

\* C14 amended: when the input ends inside an unterminated string or block comment, the
\* remaining buffer is the last raw span; it is emitted as the final statement, ending on
\* the last line of the input, exactly when it has a non-blank line that does not begin
\* with -- or /*, and is dropped otherwise.
C14_UnterminatedFlushed ==
  [][(LastSpanStep /\ UnterminatedAtEnd) =>
       /\ rawStatements[k] = current
       /\ Emitted <=> RefHasCodeLine(current)
       /\ Emitted => NewStatement.endLine = 1 + CountNewlines(content)]_vars

\* C14 witness: the input ended inside a block comment that starts the remaining buffer;
\* a statement was emitted before it and the buffer itself was dropped.
C14_Witness ==
  /\ ParseDone
  /\ inComment /\ commentType = "block"
  /\ rawStatements # <<>> /\ rawStatements[Len(rawStatements)] = current
  /\ StartsWith(Trim(current), <<SLASH, STAR>>)
  /\ Len(statements) >= 1
  /\ Len(statements) = Len(rawStatements) - 1

\* A statement without its ast.
RefWithoutAst(st) ==
  [type |-> st.type, content |-> st.content, startLine |-> st.startLine, endLine |-> st.endLine]

\* What parseStatements has returned for the first n raw spans when the external parser
\* accepts every statement, without the asts, and the line counter after them.
RECURSIVE RefParsed(_)
RefParsed(n) ==
  IF n = 0 THEN [out |-> <<>>, line |-> 1]
  ELSE LET prev == RefParsed(n - 1)
           span == rawStatements[n]
           code == SelectSeq(SplitLines(Trim(span)), IsSqlLine)
           text == Trim(JoinLines(code))
           next == prev.line + CountNewlines(span)
       IN IF Trim(span) = <<>> \/ Len(code) = 0 \/ text = <<>>
          THEN [out |-> prev.out, line |-> next]
          ELSE [out |-> Append(prev.out, [type |-> getStatementType(text), content |-> text,
                                          startLine |-> prev.line, endLine |-> next]),
                line |-> next]

\* C15: whichever statements the external parser rejects, parseStatements does not raise
\* and returns statements of the same number, type, content, startLine and endLine as
\* when the parser accepts everything; only ast differs, absent for the rejected ones.
C15_ParseFailureKeepsStatement ==
  pc = "parse" =>
    /\ [n \in 1..Len(statements) |-> RefWithoutAst(statements[n])] = RefParsed(k - 1).out
    /\ lineNumber = RefParsed(k - 1).line
    /\ \A n \in 1..Len(statements) : statements[n].ast \in {"ast", "null"}

\* C15 witness: the external parser rejected one statement and accepted a later one, and
\* both are in the result.
C15_Witness ==
  /\ ParseDone
  /\ \E n, m \in 1..Len(statements) :
       n < m /\ statements[n].ast = "null" /\ statements[m].ast = "ast"

\* The ordered prefix table of the Classifier.
RefPrefixTable ==
  <<[prefix |-> kwCREATE \o <<SP>> \o kwTABLE, type |-> "CREATE_TABLE"],
    [prefix |-> kwALTER \o <<SP>> \o kwTABLE, type |-> "ALTER_TABLE"],
    [prefix |-> kwDROP \o <<SP>> \o kwTABLE, type |-> "DROP_TABLE"],
    [prefix |-> kwCREATE \o <<SP>> \o kwINDEX, type |-> "CREATE_INDEX"],
    [prefix |-> kwDROP \o <<SP>> \o kwINDEX, type |-> "DROP_INDEX"],
    [prefix |-> kwINSERT, type |-> "INSERT"],
    [prefix |-> kwUPDATE, type |-> "UPDATE"],
    [prefix |-> kwDELETE, type |-> "DELETE"],
    [prefix |-> kwSELECT, type |-> "SELECT"],
    [prefix |-> kwCREATE, type |-> "CREATE"],
    [prefix |-> kwDROP, type |-> "DROP"],
    [prefix |-> kwALTER, type |-> "ALTER"]>>

\* A text without its leading and trailing whitespace, in upper case.
RECURSIVE RefStripLeft(_)
RefStripLeft(s) ==
  IF s # <<>> /\ Head(s) \in {SP, NL} THEN RefStripLeft(Tail(s)) ELSE s

RECURSIVE RefStripRight(_)
RefStripRight(s) ==
  IF s # <<>> /\ s[Len(s)] \in {SP, NL} THEN RefStripRight(SubSeq(s, 1, Len(s) - 1)) ELSE s

RefNormalised(s) ==
  LET t == RefStripRight(RefStripLeft(s))
  IN [j \in 1..Len(t) |->
        IF \E n \in 1..26 : LowerLetters[n] = t[j]
        THEN UpperLetters[CHOOSE n \in 1..26 : LowerLetters[n] = t[j]]
        ELSE t[j]]

RefBeginsWith(s, p) == Len(p) <= Len(s) /\ \A j \in 1..Len(p) : s[j] = p[j]

RefMatches(s) ==
  {e \in 1..Len(RefPrefixTable) : RefBeginsWith(RefNormalised(s), RefPrefixTable[e].prefix)}

RECURSIVE RefCommentScan(_, _, _, _)
RefCommentScan(text, j, st, acc) ==
  IF j > Len(text) THEN acc
  ELSE LET c == text[j]
           n == IF j + 1 <= Len(text) THEN text[j + 1] ELSE Undefined
       IN CASE st = "normal" ->
                 IF c = DASH /\ n = DASH
                 THEN RefCommentScan(text, j + 2, "line", acc \cup {j, j + 1})
                 ELSE IF c = SLASH /\ n = STAR
                 THEN RefCommentScan(text, j + 2, "block", acc \cup {j, j + 1})
                 ELSE IF c \in {SQ, DQ} THEN RefCommentScan(text, j + 1, c, acc)
                 ELSE RefCommentScan(text, j + 1, "normal", acc)
            [] st = "line" ->
                 RefCommentScan(text, j + 1, IF c = NL THEN "normal" ELSE "line", acc \cup {j})
            [] st = "block" ->
                 IF c = STAR /\ n = SLASH
                 THEN RefCommentScan(text, j + 2, "normal", acc \cup {j, j + 1})
                 ELSE RefCommentScan(text, j + 1, "block", acc \cup {j})
            [] OTHER ->
                 RefCommentScan(text, j + 1,
                                IF c = st /\ text[j - 1] # BS THEN "normal" ELSE st, acc)

RefComments(text) == RefCommentScan(text, 1, "normal", {})

\* Positions of the code of a raw span: the non-whitespace characters outside comments,
\* the terminating semicolon excepted.
RefCodePositions(span) ==
  {j \in 1..Len(span) :
     /\ j \notin RefComments(span)
     /\ ~IsWhitespace(span[j])
     /\ ~(j = Len(span) /\ span[j] = SEMI)}

\* The span with its comments blanked out.
RefCodeText(span) == [j \in 1..Len(span) |-> IF j \in RefComments(span) THEN SP ELSE span[j]]

RefTypeOf(text) ==
  IF RefMatches(text) = {} THEN "UNKNOWN" ELSE RefPrefixTable[SetMin(RefMatches(text))].type

\* C19: no code is silently skipped by the comment filter: every raw span with a
\* non-whitespace character outside comments produces a statement whose type is derived
\* from that code, also when the code is on a line that begins with a comment marker.
C19_NoCodeSkipped ==
  [][(Parsing /\ k' = k + 1 /\ RefCodePositions(rawStatements[k]) # {}) =>
       /\ Emitted
       /\ NewStatement.type = RefTypeOf(RefCodeText(rawStatements[k]))]_vars

\* Raw spans processed so far that produced a statement, in ascending order.
RefKeptSpans == {p \in 1..(k - 1) : RefHasCodeLine(rawStatements[p])}

RefKeptSpan(n) ==
  CHOOSE p \in RefKeptSpans : Cardinality({q \in RefKeptSpans : q <= p}) = n

\* 1 + the number of newlines of the source text up to the end of raw span p.
RefLineAfterSpan(p) == 1 + CountNewlines(SubSeq(content, 1, SpanOffset(p + 1)))

\* C20: line accounting: every emitted statement has 1 <= startLine <= endLine and its
\* endLine is 1 plus the number of newlines of the source up to the end of its raw span,
\* in whatever scanner state they were read and however many spans were dropped before
\* it; dropping a span never shifts the line numbers of later statements.
C20_LineAccounting ==
  pc = "parse" =>
    /\ lineNumber = RefLineAfterSpan(k - 1)
    /\ Len(statements) = Cardinality(RefKeptSpans)
    /\ \A n \in 1..Len(statements) :
         /\ 1 <= statements[n].startLine
         /\ statements[n].startLine <= statements[n].endLine
         /\ statements[n].endLine = RefLineAfterSpan(RefKeptSpan(n))

\* C20 witness: a statement was emitted after a dropped span that holds a newline; its own
\* span holds a newline read inside a string literal and one read outside.
C20_Witness ==
  /\ ParseDone
  /\ \E p, q \in 1..Len(rawStatements) :
       /\ p < q
       /\ ~RefHasCodeLine(rawStatements[p]) /\ CountNewlines(rawStatements[p]) >= 1
       /\ RefHasCodeLine(rawStatements[q])
       /\ \E a, b \in 1..Len(rawStatements[q]) :
            /\ rawStatements[q][a] = NL /\ rawStatements[q][b] = NL
            /\ a \notin RefInside(rawStatements[q])
            /\ b \in RefInside(rawStatements[q])
  /\ statements # <<>>
  /\ statements[Len(statements)].endLine = 1 + CountNewlines(content)
  /\ statements[Len(statements)].endLine > statements[Len(statements)].startLine

\* The state of the scanner as the flags of splitSQLStatements encode it
RefStateOf(str, d, com, type) ==
  IF str /\ com THEN <<"InString", d, type>>
  ELSE IF str THEN <<"InString", d>>
  ELSE IF com THEN (IF type = "line" THEN <<"LineComment">>
                    ELSE IF type = "block" THEN <<"BlockComment">>
                    ELSE <<"Comment", type>>)
  ELSE <<"Normal">>

ScannerState == RefStateOf(inString, stringChar, inComment, commentType)

RefNormal == <<"Normal">>

RefScannerStates ==
  {RefNormal, <<"LineComment">>, <<"BlockComment">>, <<"InString", SQ>>, <<"InString", DQ>>}

\* One iteration of the loop of splitSQLStatements
ScanStep == pc = "scan" /\ pc' = "scan" /\ i <= Len(content) /\ i' > i

\* C21: the scanner is always in exactly one of Normal, LineComment, BlockComment and
\* InString(d), and the states do not leak: in InString(d) only the character d that is
\* not directly preceded by a backslash returns to Normal, and the other quote, --, /*
\* and ; are inert; in LineComment only a newline returns to Normal; in both comment
\* states quotes and ; are inert; strings and comments are opened only from Normal.
C21_StatesDoNotLeak ==
  [][ScanStep =>
       /\ ScannerState \in RefScannerStates
       /\ ScannerState' \in RefScannerStates
       /\ ScannerState[1] = "InString" =>
            /\ ScannerState' = IF content[i] = ScannerState[2]
                                  /\ (i = 1 \/ content[i - 1] # BS)
                               THEN RefNormal ELSE ScannerState
            /\ rawStatements' = rawStatements
            /\ i' = i + 1
       /\ ScannerState[1] = "LineComment" =>
            /\ ScannerState' = IF content[i] = NL THEN RefNormal ELSE ScannerState
            /\ rawStatements' = rawStatements
            /\ i' = i + 1
       /\ ScannerState[1] = "BlockComment" =>
            /\ ScannerState' \in {ScannerState, RefNormal}
            /\ content[i] \in {SQ, DQ, SEMI, DASH, SLASH, NL} => ScannerState' = ScannerState
            /\ rawStatements' = rawStatements
       /\ ScannerState' \notin {ScannerState, RefNormal} => ScannerState = RefNormal
     ]_vars

\* C21 witness: the scanner is inside a '...' literal in which it has read a ; and the
\* other quote character, and no span has been closed.
C21_Witness ==
  /\ pc = "scan"
  /\ ScannerState = <<"InString", SQ>>
  /\ rawStatements = <<>>
  /\ \E a, b \in 2..(i - 1) : content[a] = SEMI /\ content[b] = DQ

\* The state of the four-state automaton after the first n characters of a text, when
\* -- and /* are read as two-character openers and */ as a two-character closer.
RECURSIVE RefAutomaton(_, _, _, _)
RefAutomaton(text, j, st, n) ==
  IF j > n THEN st
  ELSE LET c == text[j]
           nx == IF j + 1 <= Len(text) THEN text[j + 1] ELSE Undefined
       IN CASE st = "normal" ->
                 IF c = DASH /\ nx = DASH THEN RefAutomaton(text, j + 2, "line", n)
                 ELSE IF c = SLASH /\ nx = STAR THEN RefAutomaton(text, j + 2, "block", n)
                 ELSE IF c \in {SQ, DQ} THEN RefAutomaton(text, j + 1, c, n)
                 ELSE RefAutomaton(text, j + 1, "normal", n)
            [] st = "line" ->
                 RefAutomaton(text, j + 1, IF c = NL THEN "normal" ELSE "line", n)
            [] st = "block" ->
                 IF c = STAR /\ nx = SLASH THEN RefAutomaton(text, j + 2, "normal", n)
                 ELSE RefAutomaton(text, j + 1, "block", n)
            [] OTHER ->
                 RefAutomaton(text, j + 1,
                              IF c = st /\ text[j - 1] # BS THEN "normal" ELSE st, n)

RefStateAfter(text, n) == RefAutomaton(text, 1, "normal", n)

\* C22: a block comment opened by /* ends only at a */ that starts after the two opening
\* characters: the * of the opener is never reused as the * of a closer, so after /*/ the
\* scanner is still in BlockComment and a following ; is not a statement boundary.
C22_OpenerStarNotReused ==
  pc = "scan" =>
    (RefStateAfter(content, i - 1) = "block" => inComment /\ commentType = "block")

\* C23: splitting loses nothing: the raw spans, concatenated in order, are the text read
\* so far without the buffer, and at the end the whole text with at most a
\* whitespace-only remainder omitted; every span but possibly the last ends with the ;
\* that closed it.
C23_SplitLosesNothing ==
  /\ pc = "scan" =>
       /\ i <= Len(content) + 1
       /\ FlattenSeq(rawStatements) \o current = SubSeq(content, 1, i - 1)
       /\ \A n \in 1..Len(rawStatements) :
            rawStatements[n][Len(rawStatements[n])] = SEMI
  /\ pc = "parse" =>
       /\ \E m \in 0..Len(content) :
            /\ FlattenSeq(rawStatements) = SubSeq(content, 1, m)
            /\ Trim(SubSeq(content, m + 1, Len(content))) = <<>>
       /\ \A n \in 1..(Len(rawStatements) - 1) :
            rawStatements[n][Len(rawStatements[n])] = SEMI

\* C23 witness: a text with a closed block comment was split into at least two spans and
\* a whitespace-only remainder was omitted.
C23_Witness ==
  /\ pc = "parse"
  /\ Len(rawStatements) >= 2
  /\ \E j \in 1..Len(content) : j \in RefComments(content) /\ j + 1 \notin RefComments(content)
                                /\ content[j] = SLASH /\ j > 1 /\ content[j - 1] = STAR
  /\ Len(FlattenSeq(rawStatements)) < Len(content)

\* The registered rule with an id, and the violations a list holds with a severity
RefRegistered(ruleId) ==
  linterRules[CHOOSE p \in 1..Len(linterRules) : linterRules[p].id = ruleId]

RefRegisteredCount(sev) ==
  Cardinality({j \in 1..Len(linterResult.violations) :
                 RefRegistered(linterResult.violations[j].ruleId).severity = sev})

\* C24: every violation of a LintResult carries the severity currently registered for
\* the rule that produced it, so that a severity given in the configuration decides the
\* severity of the violations and errorCount, warningCount and infoCount.
C24_ViolationsCarryRegisteredSeverity ==
  linterPc = "linted" =>
    /\ \A j \in 1..Len(linterResult.violations) :
         linterResult.violations[j].severity =
           RefRegistered(linterResult.violations[j].ruleId).severity
    /\ linterResult.errorCount = RefRegisteredCount(ERROR)
    /\ linterResult.warningCount = RefRegisteredCount(WARNING)
    /\ linterResult.infoCount = RefRegisteredCount(INFO)

\* The built-in rules whose user entry does not give "enabled"
RefPartialEntries ==
  {p \in 1..Len(getBuiltInRules) :
     /\ RuleDef(getBuiltInRules[p]).id \in DOMAIN userRules
     /\ userRules[RuleDef(getBuiltInRules[p]).id].enabled = Undefined}

\* C29: a user entry that sets only some fields leaves the others at the built-in
\* defaults: a rule enabled by default whose entry gives only a severity is registered
\* with enabled true and is returned by getEnabledRules.
C29_PartialEntryKeepsDefaults ==
  linterPc \in {"ready", "linted"} =>
    \A p \in RefPartialEntries :
      RuleDef(getBuiltInRules[p]).enabled =>
        /\ linterRules[p].enabled = JsTrue
        /\ \E q \in 1..Len(LinterEnabledRules) : LinterEnabledRules[q] = linterRules[p]

\* A step of a scan that analyses one more migration, and that migration
AnalysesMigration == scanKind' = "analyzeMigrations" /\ scanIdx' = scanIdx + 1
RefAnalysed == scanInput'[scanIdx']

\* The rules invoked on statement s of the migration analysed last, by position
RefInvokedOn(s) == {c[2] : c \in {calls'[n] : n \in 1..Len(calls')} \cap ({s} \X (1..Len(rules)))}

\* C25: with registry operations interleaved with an analyzeMigrations call in flight,
\* every statement of one migration is evaluated against one and the same set of enabled
\* rules: an operation takes effect only between two migrations of the scan, never
\* between two statements or two rules of one migration, and it leaves the violations
\* already collected alone.
C25_OneRegistryPerMigration ==
  [][/\ AnalysesMigration =>
          /\ rules' = rules /\ enabled' = enabled
          /\ \A s \in 1..Len(RefAnalysed.statements) : RefInvokedOn(s) = RefEnabledPositions
          /\ pending' = RefMigrationOutput(RefAnalysed)
     /\ (rules' # rules \/ enabled' # enabled) =>
          UNCHANGED <<scanPc, scanIdx, pending, allViolations, calls, result>>
    ]_vars

\* C25 witness: a disableRule ran while the call was suspended after its first migration;
\* the rule reported for the first migration and was not run on the second, which has a
\* statement it reports.
C25_Witness ==
  /\ scanKind = "analyzeMigrations" /\ scanPc = "awaiting" /\ scanIdx = 2
  /\ lastOp = [op |-> "disableRule", found |-> TRUE]
  /\ \E p \in 1..Len(rules) :
       /\ ~enabled[rules[p]]
       /\ \E j \in 1..Len(allViolations) : allViolations[j].ruleId = RuleDef(rules[p]).id
       /\ \E s \in 1..Len(scanInput[2].statements) : RefOut(scanInput[2], s, p) # <<>>
       /\ \A j \in 1..Len(pending) : pending[j].ruleId # RuleDef(rules[p]).id

\* What analyzeMigrations(migrations) returns when it runs alone on the registry
RefAlone(migrations) ==
  generateLintResult(FlattenSeq([n \in 1..Len(migrations) |-> RefMigrationOutput(migrations[n])]),
                     Len(migrations))

\* C26: two analyzeMigrations calls interleaved at their await points on one engine, with
\* no registry operation in between, each return the LintResult they would return alone,
\* in migration-then-statement-then-rule order whatever the order of completion.
C26_ConcurrentCallsIndependent ==
  /\ (scanKind = "analyzeMigrations" /\ scanPc = "done") => result = RefAlone(scanInput)
  /\ otherCall.pc = "done" => otherCall.result = RefAlone(otherCall.input)

\* C26 witness: two calls that were suspended at the same time have both resolved, with
\* different, non-empty results.
C26_Witness ==
  /\ scanKind = "analyzeMigrations" /\ scanPc = "done"
  /\ otherCall.pc = "done" /\ otherCall.overlapped
  /\ Len(scanInput) = 2 /\ Len(otherCall.input) = 2
  /\ result.violations # <<>> /\ otherCall.result.violations # <<>>
  /\ result # otherCall.result

\* The rule object registered first under an id, 0 if there is none
RefFirstWithId(ruleId) ==
  IF RefPositionsOf(ruleId) = {} THEN 0 ELSE rules[SetMin(RefPositionsOf(ruleId))]

\* The flags after the flag of one rule object is set, all others being kept
RefFlagSet(o, value) == [q \in DOMAIN enabled |-> IF q = o THEN value ELSE enabled[q]]

\* C28: when several registered rules share an id, getRuleById returns the first of them
\* in registration order, and enableRule and disableRule set the enabled flag of that
\* first rule only: the flags of the later duplicates, like those of all other rules,
\* are unchanged.
C28_FirstOfDuplicates ==
  [][\A ruleId \in RuleIds :
       /\ getRuleById(ruleId) = RefFirstWithId(ruleId)
       /\ enableRule(ruleId) =>
            enabled' = IF RefFirstWithId(ruleId) = 0 THEN enabled
                       ELSE RefFlagSet(RefFirstWithId(ruleId), TRUE)
       /\ disableRule(ruleId) =>
            enabled' = IF RefFirstWithId(ruleId) = 0 THEN enabled
                       ELSE RefFlagSet(RefFirstWithId(ruleId), FALSE)
    ]_vars

\* C28 witness: two different rules are registered under one id and the second is
\* disabled; an enableRule of that id has just run: the first rule is enabled, the second
\* is still disabled, and getRuleById returns the first.
C28_Witness ==
  /\ lastOp = [op |-> "enableRule", found |-> TRUE]
  /\ Len(rules) = 2
  /\ rules[1] # rules[2]
  /\ RuleDef(rules[1]).id = RuleDef(rules[2]).id
  /\ getRuleById(RuleDef(rules[2]).id) = rules[1]
  /\ enabled[rules[1]] /\ ~enabled[rules[2]]

\* What getAllRules and getEnabledRules of engine e return
RefAllRulesOf(e) == RulesOf(e)
RefEnabledRulesOf(e) == SelectSeq(RulesOf(e), LAMBDA o : enabled[o])

\* The step is a management operation on engine e
ManagementOn(e) == shareOp' = Management(e)

\* The built-in rule objects that getBuiltInRules returns, among the objects registered
RefBuiltInObjs == {getBuiltInRules[p] : p \in 1..Len(getBuiltInRules)} \cap ShareObjs

\* C27: registries are isolated from each other and from their creator: a management
\* operation on one engine never changes what getAllRules or getEnabledRules of another
\* engine returns, never changes the enabled flag of a built-in rule object, and never
\* changes the array that was passed to the constructor.
C27_RegistriesIsolated ==
  [][\A e \in Engines :
       ManagementOn(e) =>
         /\ \A f \in Engines \ {e} :
              /\ RefAllRulesOf(f)' = RefAllRulesOf(f)
              /\ RefEnabledRulesOf(f)' = RefEnabledRulesOf(f)
         /\ \A o \in RefBuiltInObjs : enabled'[o] = enabled[o]
         /\ callerArray' = callerArray
    ]_vars

\* The registry of engine e: its rules in order, with their enabled flags and checks
RefRegistryOf(e) ==
  [p \in 1..Len(RulesOf(e)) |-> [rule |-> RulesOf(e)[p], enabled |-> enabled[RulesOf(e)[p]]]]

\* C30: the registry changes only through addRule, removeRule, enableRule and
\* disableRule: getAllRules returns the registered rules in registration order and
\* getEnabledRules the enabled ones in the same relative order, and neither the
\* accessors, nor mutating a list they returned, nor analyzeMigration change the
\* registry's membership, order or enabled flags.
C30_RegistryChangesOnlyThroughOperations ==
  [][\A e \in Engines :
       /\ RefRegistryOf(e)' # RefRegistryOf(e) => ManagementOn(e)
       /\ \A o \in ShareObjs : addRuleOn(e, o) => RefAllRulesOf(e)' = Append(RefAllRulesOf(e), o)
       /\ getAllRulesOf(e) => returned'.list = RulesOf(e)
       /\ getEnabledRulesOf(e) =>
            returned'.list = SelectSeq(RulesOf(e), LAMBDA o : enabled[o])
    ]_vars

\* ------------------------------------------------------------------------
\* Specifications
\* ------------------------------------------------------------------------
ParserIdle ==
  /\ content = <<>>
  /\ pc = "off"
  /\ i = 1
  /\ current = <<>>
  /\ inString = FALSE
  /\ stringChar = ""
  /\ inComment = FALSE
  /\ commentType = ""
  /\ rawStatements = <<>>
  /\ lineNumber = 1
  /\ k = 1
  /\ statements = <<>>

EngineIdle ==
  /\ rules = <<>>
  /\ enabled = [o \in RuleObjs |-> RuleDef(o).enabled]
  /\ scanPc = "idle"
  /\ scanKind = "none"
  /\ scanInput = <<>>
  /\ scanIdx = 0
  /\ pending = <<>>
  /\ allViolations = <<>>
  /\ result = NoResult
  /\ calls = <<>>
  /\ warnings = 0
  /\ lastOp = NoOp

PureIdle ==
  /\ clsStatement = <<>>
  /\ clsType = ""
  /\ config = DefaultConfig
  /\ shouldExitArg = NoResult
  /\ shouldExitRet = NotReturned

\* No linter has been constructed
LinterIdle ==
  /\ userRules = <<>>
  /\ configRules = <<>>
  /\ linterRules = <<>>
  /\ linterPc = "off"
  /\ linterResult = NoResult

\* No second call is in flight
OtherIdle == otherCall = [pc |-> "off"]

\* No second engine, no array shared with a caller
ShareIdle ==
  /\ callerArray = <<>>
  /\ engineRules = <<>>
  /\ returned = <<>>
  /\ shareOp = <<>>

ExtIdle == LinterIdle /\ OtherIdle /\ ShareIdle

EngineInit == EngineIdle /\ ParserIdle /\ PureIdle /\ ExtIdle

\* The registry is managed between linting calls: callers must not let a management
\* operation race with a call in flight.
BetweenCalls == scanPc = "idle"

EngineNext ==
  \/ BetweenCalls /\ \E o \in RuleObjs : addRule(o)
  \/ BetweenCalls /\ \E ruleId \in RuleIds : removeRule(ruleId)
  \/ BetweenCalls /\ \E ruleId \in RuleIds : enableRule(ruleId)
  \/ BetweenCalls /\ \E ruleId \in RuleIds : disableRule(ruleId)
  \/ \E migrations \in MigrationLists : StartAnalyzeMigrations(migrations)
  \/ ResumeAnalyzeMigrations
  \/ \E file \in {Readable(MigA), Readable(MigB), Unreadable} : lintFile(file)
  \/ \E changedFiles \in ChangedFileLists : StartLintChangedMigrations(changedFiles)
  \/ LintChangedFile
  \/ ReturnResult

EngineSpec == EngineInit /\ [][EngineNext]_vars

ParserInit ==
  /\ EngineIdle
  /\ ExtIdle
  /\ PureIdle
  /\ content \in ShortTexts \cup ExampleTexts
  /\ pc = "scan"
  /\ i = 1
  /\ current = <<>>
  /\ inString = FALSE
  /\ stringChar = ""
  /\ inComment = FALSE
  /\ commentType = ""
  /\ rawStatements = <<>>
  /\ lineNumber = 1
  /\ k = 1
  /\ statements = <<>>

ClassifierInit ==
  /\ EngineIdle
  /\ ExtIdle
  /\ ParserIdle
  /\ clsStatement \in ClassifierInputs
  /\ clsType = ""
  /\ config = DefaultConfig
  /\ shouldExitArg = NoResult
  /\ shouldExitRet = NotReturned

ClassifierNext == Classify

ClassifierSpec == ClassifierInit /\ [][ClassifierNext]_vars

ExitInit ==
  /\ EngineIdle
  /\ ExtIdle
  /\ ParserIdle
  /\ clsStatement = <<>>
  /\ clsType = ""
  /\ config \in Configs
  /\ shouldExitArg \in LintResults
  /\ shouldExitRet = NotReturned

ExitNext == CallShouldExit

ExitSpec == ExitInit /\ [][ExitNext]_vars

LinterInit ==
  /\ EngineIdle
  /\ ParserIdle
  /\ PureIdle
  /\ OtherIdle
  /\ ShareIdle
  /\ userRules \in UserRuleConfigs
  /\ configRules = <<>>
  /\ linterRules = <<>>
  /\ linterPc = "new"
  /\ linterResult = NoResult

LinterNext ==
  \/ loadConfig
  \/ initializeRules
  \/ \E migration \in LinterMigrations : lintFileConfigured(migration)

LinterSpec == LinterInit /\ [][LinterNext]_vars

\* Registry operations racing with one analyzeMigrations call
RaceObjs == {1, 2}
RaceIds == {RuleDef(o).id : o \in RaceObjs}
RaceInputs == {<<MigB, MigA>>, <<MigA, MigE>>}

RaceInit == EngineInit

RaceNext ==
  \/ \E o \in RaceObjs : addRule(o)
  \/ \E ruleId \in RaceIds : removeRule(ruleId)
  \/ \E ruleId \in RaceIds : enableRule(ruleId)
  \/ \E ruleId \in RaceIds : disableRule(ruleId)
  \/ \E migrations \in RaceInputs : StartAnalyzeMigrations(migrations)
  \/ ResumeAnalyzeMigrations
  \/ ReturnResult

RaceSpec == RaceInit /\ [][RaceNext]_vars

\* Two analyzeMigrations calls in flight at once, the registry being managed while
\* neither is
ConcurrentInit ==
  /\ EngineIdle
  /\ ParserIdle
  /\ PureIdle
  /\ LinterIdle
  /\ ShareIdle
  /\ otherCall = OtherNotCalled

NoCallInFlight == scanPc = "idle" /\ otherCall.pc = "idle"

ConcurrentNext ==
  \/ NoCallInFlight /\ \E o \in RaceObjs : addRule(o)
  \/ NoCallInFlight /\ \E ruleId \in RaceIds : removeRule(ruleId)
  \/ NoCallInFlight /\ \E ruleId \in RaceIds : disableRule(ruleId)
  \/ \E migrations \in RaceInputs : StartAnalyzeMigrations(migrations)
  \/ ResumeAnalyzeMigrations
  \/ ReturnResult
  \/ \E migrations \in RaceInputs : StartOtherAnalyzeMigrations(migrations)
  \/ ResumeOtherAnalyzeMigrations
  \/ ReturnOtherResult

ConcurrentSpec == ConcurrentInit /\ [][ConcurrentNext]_vars

\* Two engines, each constructed with the caller's array or with no argument
ShareInit ==
  /\ EngineIdle
  /\ ParserIdle
  /\ PureIdle
  /\ LinterIdle
  /\ OtherIdle
  /\ callerArray \in {<<>>, <<1>>}
  /\ engineRules \in [Engines -> {NewRuleEngine(TRUE), NewRuleEngine(FALSE)}]
  /\ returned = NothingReturned
  /\ shareOp = NoCall

ShareNext ==
  \/ \E e \in Engines, o \in ShareObjs : addRuleOn(e, o)
  \/ \E e \in Engines, ruleId \in ShareIds : removeRuleOn(e, ruleId)
  \/ \E e \in Engines, ruleId \in ShareIds : enableRuleOn(e, ruleId)
  \/ \E e \in Engines, ruleId \in ShareIds : disableRuleOn(e, ruleId)
  \/ \E e \in Engines : getAllRulesOf(e)
  \/ \E e \in Engines : getEnabledRulesOf(e)
  \/ \E e \in Engines, ruleId \in ShareIds : getRuleByIdOf(e, ruleId)
  \/ ClearReturnedList
  \/ \E o \in ShareObjs : PushOnCallerArray(o)
  \/ \E e \in Engines : analyzeMigrationOn(e, MigA)

ShareSpec == ShareInit /\ [][ShareNext]_vars

ParserNext ==
  \/ EnterLineComment
  \/ EnterBlockComment
  \/ CommentChar
  \/ OpenString
  \/ StringChar
  \/ Terminate
  \/ AppendChar
  \/ FlushRemaining
  \/ SkipSpan
  \/ EmitParsed
  \/ EmitUnparsed

ParserSpec == ParserInit /\ [][ParserNext]_vars

====
